---- MODULE Spec2Model ----
(***************************************************************************)
(* Verification model of the psc-saas reliability core:                    *)
(*   psc-idempotency  RedisIdempotencyStore (check_and_set / get_result)   *)
(*   psc-ledger       LedgerRepository::create_journal_with_entries        *)
(*   psc-provider-gateway  MtnSandboxAdapter::deposit                      *)
(* Each component has its own specification (SpecIdem, SpecLedger,         *)
(* SpecGateway); the variables of the other components stay unchanged.     *)
(***************************************************************************)
EXTENDS Integers, Sequences, FiniteSets, TLC

(***************************************************************************)
(* Bounds of the model.                                                    *)
(***************************************************************************)
\* concurrent callers of the idempotency store
NCallers == 2
\* the clock runs over 0..MaxTime (seconds)
MaxTime == 2

\* concurrent callers of create_journal_with_entries
NWriters == 2
\* entries of one journal
MaxEntries == 2
\* width in bits of the signed integer standing for i64
IntBits == 3
\* concurrent deposit requests
NRequests == 2

\* threads that share one CircuitBreaker
NThreads == 2
\* failure_threshold and success_threshold range over 1..MaxThreshold
MaxThreshold == 2
\* record_failure is called while failure_count is below MaxFailures
MaxFailures == 3
\* the tokio clock runs over 0..MaxClock (ticks)
MaxClock == 2
\* max_retries ranges over 0..MaxRetries
MaxRetries == 2
\* width in bits of the integer standing for a Duration, in ticks
DurationBits == 4

Callers == 1..NCallers
Keys == {1}
\* the values of ttl_seconds
Ttls == {1, 2}

VARIABLES
    now,        \* wall clock of the Redis server, in seconds
    redis,      \* Redis keyspace: key -> [present, json, exp]
    call,       \* per caller: the call in progress or last returned
    lastWin,    \* history: key -> what the latest true check_and_set stored
    liveWins    \* history: key -> [payload, exp] of the true check_and_sets
                \* whose ttl has not elapsed

idemVars == <<now, redis, call, lastWin, liveWins>>

VARIABLES
    overflowChecks, \* build profile: TRUE panics on integer overflow, FALSE wraps
    db,             \* committed rows of the journals and journal_entries tables
    tx,             \* per writer: rows written in its open transaction
    writer          \* per writer: its create_journal_with_entries call

ledgerVars == <<overflowChecks, db, tx, writer>>

VARIABLES
    req,            \* per request: its deposit call
    providerLog,    \* RequestToPay calls the provider has received
    natsEvents      \* events published on payments.status.update

gatewayVars == <<req, providerLog, natsEvents>>

VARIABLES
    cfg,            \* CircuitBreakerConfig of the breaker
    cb,             \* the breaker: state, failure_count, success_count,
                    \* last_failure_time
    lftReaders,     \* threads holding the read lock of last_failure_time
    lftQueue,       \* threads waiting for the last_failure_time lock, in order
    clock,          \* tokio::time::Instant::now(), in ticks
    bc,             \* per thread: its breaker method in progress or returned
    ex,             \* per thread: its do_with_retry call
    opened          \* history: the instant at which the state last changed
                    \* to Open and the state it had before

retryVars == <<cfg, cb, lftReaders, lftQueue, clock, bc, ex, opened>>

VARIABLES
    bo              \* one call of RetryPolicy::calculate_backoff

backoffVars == <<bo>>

VARIABLES
    foreignKeys,    \* schema: TRUE when journal_entries.account_id references
                    \* accounts(id), FALSE when it is unconstrained
    svc             \* the post_journal call of the JournalService

serviceVars == <<foreignKeys, svc>>

vars == <<now, redis, call, lastWin, liveWins, overflowChecks, db, tx, writer,
          req, providerLog, natsEvents,
          cfg, cb, lftReaders, lftQueue, clock, bc, ex, opened, bo, foreignKeys,
          svc>>

\* what the steps of one component leave alone
outsideIdem == <<ledgerVars, gatewayVars, retryVars, backoffVars, serviceVars>>
outsideLedger == <<idemVars, gatewayVars, retryVars, backoffVars, serviceVars>>
outsideGateway == <<ledgerVars, retryVars, backoffVars, serviceVars>>
outsideRetry == <<idemVars, ledgerVars, gatewayVars, backoffVars, serviceVars>>
outsideBackoff == <<idemVars, ledgerVars, gatewayVars, retryVars, serviceVars>>
outsideService == <<idemVars, gatewayVars, retryVars, backoffVars>>

(***************************************************************************)
(* psc-idempotency: values, serde_json and the two Redis commands.         *)
(***************************************************************************)
\* the payload a caller passes: distinct callers pass distinct payloads
PayloadOf(c) == 10 + c

\* serde_json::to_string(result): a JSON text, here its token sequence
ToJson(p) == <<"{", p, "}">>

\* serde_json::from_str(&json): [ok, value]
FromJson(j) ==
    IF Len(j) = 3 /\ j[1] = "{" /\ j[3] = "}"
    THEN [ok |-> TRUE, value |-> j[2]]
    ELSE [ok |-> FALSE, value |-> 0]

NoRecord == [present |-> FALSE, json |-> <<>>, exp |-> 0]
NoWin == [won |-> FALSE, payload |-> 0, exp |-> 0]

\* a key holds a value as long as its expiry lies in the future
Live(store, k, t) == store[k].present /\ t < store[k].exp

\* a plain SET key value EX ttl: always writes
RedisSetEx(store, k, json, ttl, t) ==
    [store |-> [store EXCEPT ![k] = [present |-> TRUE, json |-> json, exp |-> t + ttl]],
     reply |-> TRUE]

\* SET key value NX EX ttl at server time t: writes only when the key holds
\* no live value; the reply says whether it wrote
RedisSetNxEx(store, k, json, ttl, t) ==
    IF Live(store, k, t)
    THEN [store |-> store, reply |-> FALSE]
    ELSE [store |-> [store EXCEPT ![k] = [present |-> TRUE, json |-> json, exp |-> t + ttl]],
          reply |-> TRUE]

\* a GET that ignores the expiry of the key
RedisGetStale(store, k, t) ==
    IF store[k].present
    THEN [some |-> TRUE, json |-> store[k].json]
    ELSE [some |-> FALSE, json |-> <<>>]

\* GET key at server time t: Option<String>
RedisGet(store, k, t) ==
    IF Live(store, k, t)
    THEN [some |-> TRUE, json |-> store[k].json]
    ELSE [some |-> FALSE, json |-> <<>>]

\* results of a call: tag in pending | Err | Bool | None | Some
Res(tag, val) == [tag |-> tag, val |-> val]
Pending == Res("pending", 0)
ErrInternal == Res("Err", 0)
OkBool(b) == Res("Bool", IF b THEN 1 ELSE 0)
OkNone == Res("None", 0)
OkSome(v) == Res("Some", v)

IdleCall ==
    [pc |-> "idle", op |-> "none", key |-> 1, payload |-> 0, ttl |-> 0,
     res |-> Pending,
     wonBefore |-> FALSE,       \* history: a check_and_set on the key had
                                \* returned true when this call started
     absentAtStart |-> FALSE,   \* history: the key held no live value at the start
     overlapped |-> FALSE]      \* history: another check_and_set on the key
                                \* returned true while this one was running

\* a caller enters check_and_set(key, result, ttl_seconds)
CheckAndSetCall(c, k, ttl) ==
    /\ call[c].pc \in {"idle", "done"}
    /\ call' = [call EXCEPT ![c] =
                  [IdleCall EXCEPT !.pc = "running", !.op = "cas", !.key = k,
                                   !.payload = PayloadOf(c), !.ttl = ttl,
                                   !.wonBefore = lastWin[k].won,
                                   !.absentAtStart = ~Live(redis, k, now)]]
    /\ UNCHANGED <<now, redis, lastWin, liveWins>>
    /\ UNCHANGED outsideIdem

\* a caller enters get_result(key)
GetResultCall(c, k) ==
    /\ call[c].pc \in {"idle", "done"}
    /\ call' = [call EXCEPT ![c] =
                  [IdleCall EXCEPT !.pc = "running", !.op = "get", !.key = k,
                                   !.wonBefore = lastWin[k].won]]
    /\ UNCHANGED <<now, redis, lastWin, liveWins>>
    /\ UNCHANGED outsideIdem

\* the connection or the command fails: Error::Internal, the keyspace untouched
StoreError(c) ==
    /\ call[c].pc = "running"
    /\ call' = [call EXCEPT ![c].pc = "done", ![c].ttl = 0, ![c].res = ErrInternal]
    /\ UNCHANGED <<now, redis, lastWin, liveWins>>
    /\ UNCHANGED outsideIdem

\* check_and_set: serialize, SET NX EX, return the reply
CheckAndSetExec(c) ==
    /\ call[c].pc = "running"
    /\ call[c].op = "cas"
    /\ LET k == call[c].key
           r == RedisSetNxEx(redis, k, ToJson(call[c].payload), call[c].ttl, now)
           e == now + call[c].ttl
       IN /\ redis' = r.store
          /\ lastWin' = IF r.reply
                        THEN [lastWin EXCEPT ![k] =
                                [won |-> TRUE, payload |-> call[c].payload, exp |-> e]]
                        ELSE lastWin
          /\ liveWins' = IF r.reply
                         THEN [liveWins EXCEPT ![k] =
                                 @ \cup {[payload |-> call[c].payload, exp |-> e]}]
                         ELSE liveWins
          /\ call' = [d \in Callers |->
                        IF d = c
                        THEN [call[c] EXCEPT !.pc = "done", !.ttl = 0,
                                             !.res = OkBool(r.reply)]
                        ELSE IF r.reply /\ call[d].pc = "running" /\ call[d].op = "cas"
                                        /\ call[d].key = k
                        THEN [call[d] EXCEPT !.overlapped = TRUE]
                        ELSE call[d]]
    /\ UNCHANGED now
    /\ UNCHANGED outsideIdem

\* get_result: GET, deserialize
GetResultExec(c) ==
    /\ call[c].pc = "running"
    /\ call[c].op = "get"
    /\ LET g == RedisGet(redis, call[c].key, now)
           v == FromJson(g.json)
           r == IF ~g.some THEN OkNone
                ELSE IF v.ok THEN OkSome(v.value) ELSE ErrInternal
       IN call' = [call EXCEPT ![c].pc = "done", ![c].res = r, ![c].wonBefore = FALSE]
    /\ UNCHANGED <<now, redis, lastWin, liveWins>>
    /\ UNCHANGED outsideIdem

\* a second passes on the server
Tick ==
    /\ now < MaxTime
    /\ now' = now + 1
    /\ liveWins' = [k \in Keys |-> {w \in liveWins[k] : now + 1 < w.exp}]
    /\ UNCHANGED <<redis, call, lastWin>>
    /\ UNCHANGED outsideIdem

IdemInit ==
    /\ now = 0
    /\ redis = [k \in Keys |-> NoRecord]
    /\ call = [c \in Callers |-> IdleCall]
    /\ lastWin = [k \in Keys |-> NoWin]
    /\ liveWins = [k \in Keys |-> {}]

IdemNext ==
    \/ \E c \in Callers, k \in Keys, ttl \in Ttls : CheckAndSetCall(c, k, ttl)
    \/ \E c \in Callers, k \in Keys : GetResultCall(c, k)
    \/ \E c \in Callers : StoreError(c)
    \/ \E c \in Callers : CheckAndSetExec(c)
    \/ \E c \in Callers : GetResultExec(c)
    \/ Tick



(***************************************************************************)
(* psc-ledger: LedgerRepository::create_journal_with_entries.              *)
(***************************************************************************)
Writers == 1..NWriters
Modulus == 2 ^ IntBits
MinInt == -(2 ^ (IntBits - 1))
MaxInt == 2 ^ (IntBits - 1) - 1
Amounts == {MinInt, 1, MaxInt}
AccountIds == {"acct"}
EntryTypes == {"DEBIT", "CREDIT"}
Entry == [account : AccountIds, type : EntryTypes, amount : Amounts]
EntryLists == UNION {[1..n -> Entry] : n \in 0..MaxEntries}
\* the journals of the other writers: plain balanced pairs
PlainLists ==
    {<<[account |-> a, type |-> "DEBIT", amount |-> 1],
       [account |-> a, type |-> "CREDIT", amount |-> 1]>> : a \in AccountIds}
EntryListsOf(w) == IF w = 1 THEN EntryLists ELSE PlainLists

\* two's complement wrap-around of the machine integer
Wrap(x) == ((x - MinInt) % Modulus) + MinInt

\* the loop of the balance check: total_debits += amount, total_credits += amount
\* over entries[i..], in the machine integer
RECURSIVE Totals(_, _, _)
Totals(entries, i, acc) ==
    IF i > Len(entries) THEN acc
    ELSE LET e == entries[i]
             raw == (IF e.type = "DEBIT" THEN acc.debits ELSE acc.credits) + e.amount
             over == raw < MinInt \/ raw > MaxInt
         IN Totals(entries, i + 1,
                   [debits |-> IF e.type = "DEBIT" THEN Wrap(raw) ELSE acc.debits,
                    credits |-> IF e.type = "CREDIT" THEN Wrap(raw) ELSE acc.credits,
                    overflowed |-> acc.overflowed \/ over])

ZeroTotals == [debits |-> 0, credits |-> 0, overflowed |-> FALSE]

\* the sums over the mathematical integers
RECURSIVE TrueSum(_, _, _)
TrueSum(entries, i, type) ==
    IF i > Len(entries) THEN 0
    ELSE (IF entries[i].type = type THEN entries[i].amount ELSE 0)
         + TrueSum(entries, i + 1, type)

JournalRow(j) ==
    [table |-> "journals", journal |-> j, seq |-> 0,
     account |-> "", type |-> "", amount |-> 0]
EntryRow(j, i, e) ==
    [table |-> "journal_entries", journal |-> j, seq |-> i,
     account |-> e.account, type |-> e.type, amount |-> e.amount]

\* a statement executed on the pool: the row is committed at once
ExecuteOnPool(pending, committed, row) ==
    [pending |-> pending, committed |-> committed \cup {row}]

\* a statement executed on the transaction (&mut *tx): the row stays pending
ExecuteInTx(pending, committed, row) ==
    [pending |-> pending \cup {row}, committed |-> committed]

IdleWriter ==
    [pc |-> "idle", entries |-> <<>>, idx |-> 0, res |-> "pending", failedAt |-> "none"]

\* a caller enters create_journal_with_entries(description, entries)
CreateJournalCall(w, entries) ==
    /\ writer[w].pc = "idle"
    /\ writer' = [writer EXCEPT ![w] = [IdleWriter EXCEPT !.pc = "validate",
                                                         !.entries = entries]]
    /\ UNCHANGED <<overflowChecks, db, tx>>
    /\ UNCHANGED outsideLedger

\* a balance check that also wants at least one entry and positive amounts
ValidateBalanceStrict(w) ==
    /\ writer[w].pc = "validate"
    /\ LET t == Totals(writer[w].entries, 1, ZeroTotals)
           n == Len(writer[w].entries)
       IN writer' = [writer EXCEPT ![w] =
             IF overflowChecks /\ t.overflowed
             THEN [@ EXCEPT !.pc = "done", !.res = "Panic", !.failedAt = "validate"]
             ELSE IF \/ t.debits # t.credits
                     \/ n = 0
                     \/ \E i \in 1..n : writer[w].entries[i].amount <= 0
             THEN [@ EXCEPT !.pc = "done", !.res = "BadRequest", !.failedAt = "validate"]
             ELSE [@ EXCEPT !.pc = "begin"]]
    /\ UNCHANGED <<overflowChecks, db, tx>>
    /\ UNCHANGED outsideLedger

\* 1. the debit/credit invariant
ValidateBalance(w) ==
    /\ writer[w].pc = "validate"
    /\ LET t == Totals(writer[w].entries, 1, ZeroTotals)
       IN writer' = [writer EXCEPT ![w] =
             IF overflowChecks /\ t.overflowed
             THEN [@ EXCEPT !.pc = "done", !.res = "Panic", !.failedAt = "validate"]
             ELSE IF t.debits # t.credits
             THEN [@ EXCEPT !.pc = "done", !.res = "BadRequest", !.failedAt = "validate"]
             ELSE [@ EXCEPT !.pc = "begin"]]
    /\ UNCHANGED <<overflowChecks, db, tx>>
    /\ UNCHANGED outsideLedger

\* self.pool.begin()
BeginTx(w) ==
    /\ writer[w].pc = "begin"
    /\ tx' = [tx EXCEPT ![w] = {}]
    /\ writer' = [writer EXCEPT ![w].pc = "insert_journal"]
    /\ UNCHANGED <<overflowChecks, db>>
    /\ UNCHANGED outsideLedger

\* 2. INSERT INTO journals, on the transaction; the journal id is fresh
InsertJournal(w) ==
    /\ writer[w].pc = "insert_journal"
    /\ LET r == ExecuteInTx(tx[w], db, JournalRow(w))
       IN /\ tx' = [tx EXCEPT ![w] = r.pending]
          /\ db' = r.committed
    /\ writer' = [writer EXCEPT ![w].pc = IF Len(writer[w].entries) = 0
                                          THEN "commit" ELSE "insert_entries",
                                ![w].idx = 1]
    /\ UNCHANGED overflowChecks
    /\ UNCHANGED outsideLedger

\* 3. INSERT INTO journal_entries for the next entry, on the transaction; where
\* the schema constrains account_id the insert of an entry naming no account
\* can only fail
InsertEntry(w) ==
    /\ writer[w].pc = "insert_entries"
    /\ foreignKeys => writer[w].entries[writer[w].idx].account \in AccountIds
    /\ LET i == writer[w].idx
           r == ExecuteInTx(tx[w], db, EntryRow(w, i, writer[w].entries[i]))
       IN /\ tx' = [tx EXCEPT ![w] = r.pending]
          /\ db' = r.committed
          /\ writer' = [writer EXCEPT ![w].pc = IF i = Len(writer[w].entries)
                                                THEN "commit" ELSE "insert_entries",
                                      ![w].idx = i + 1]
    /\ UNCHANGED overflowChecks
    /\ UNCHANGED outsideLedger

\* tx.commit(): the pending rows become visible together
CommitTx(w) ==
    /\ writer[w].pc = "commit"
    /\ db' = db \cup tx[w]
    /\ tx' = [tx EXCEPT ![w] = {}]
    /\ writer' = [writer EXCEPT ![w].pc = "done", ![w].res = "Ok"]
    /\ UNCHANGED overflowChecks
    /\ UNCHANGED outsideLedger

\* a storage operation fails: `?` returns Error::Database, the transaction is
\* dropped and with it every pending row
StorageFailure(w) ==
    /\ writer[w].pc \in {"begin", "insert_journal", "insert_entries", "commit"}
    /\ tx' = [tx EXCEPT ![w] = {}]
    /\ writer' = [writer EXCEPT ![w].pc = "done", ![w].res = "Database",
                                ![w].failedAt = writer[w].pc]
    /\ UNCHANGED <<overflowChecks, db>>
    /\ UNCHANGED outsideLedger

\* the insert of an entry that names no account violates the constraint on
\* account_id: `?` returns Error::Database, the transaction is dropped
ForeignKeyViolation(w) ==
    /\ writer[w].pc = "insert_entries"
    /\ foreignKeys
    /\ writer[w].entries[writer[w].idx].account \notin AccountIds
    /\ tx' = [tx EXCEPT ![w] = {}]
    /\ writer' = [writer EXCEPT ![w].pc = "done", ![w].res = "Database",
                                ![w].failedAt = "foreign_key"]
    /\ UNCHANGED <<overflowChecks, db>>
    /\ UNCHANGED outsideLedger

LedgerInit ==
    /\ overflowChecks \in BOOLEAN
    /\ db = {}
    /\ tx = [w \in Writers |-> {}]
    /\ writer = [w \in Writers |-> IdleWriter]

LedgerNext ==
    \/ \E w \in Writers : \E entries \in EntryListsOf(w) : CreateJournalCall(w, entries)
    \/ \E w \in Writers : ValidateBalance(w)
    \/ \E w \in Writers : BeginTx(w)
    \/ \E w \in Writers : InsertJournal(w)
    \/ \E w \in Writers : InsertEntry(w)
    \/ \E w \in Writers : CommitTx(w)
    \/ \E w \in Writers : StorageFailure(w)

\* the ledger at rest, for the specifications of the other components
LedgerQuiet ==
    /\ overflowChecks = FALSE
    /\ db = {}
    /\ tx = [w \in Writers |-> {}]
    /\ writer = [w \in Writers |-> IdleWriter]

(***************************************************************************)
(* psc-ledger: JournalService::post_journal.                               *)
(***************************************************************************)
\* the account strings of a request: the id of an account, a UUID that names
\* no account, a string that is no UUID
AccountStrings == {"acct", "ghost", "not-a-uuid"}

\* Uuid::parse_str(&entry.account)
ParsesAsUuid(s) == s # "not-a-uuid"

\* what ProtoEntryType::try_from(entry.type) yields
ProtoTypes == {"DEBIT", "CREDIT", "UNSPECIFIED", "UNKNOWN"}

\* entry.amount: None, or Some(Money) with its amount_minor_units
NoAmount == [some |-> FALSE, amount_minor_units |-> 0]
ProtoAmounts ==
    {NoAmount} \cup {[some |-> TRUE, amount_minor_units |-> a] : a \in {1, MaxInt}}

ProtoEntry == [account : AccountStrings, type : ProtoTypes, amount : ProtoAmounts]
JournalRequests == UNION {[1..n -> ProtoEntry] : n \in 0..MaxEntries}

\* tonic::Status: a code and a message; detail is the text of the storage
\* driver that the message carries, "none" when it carries none
Status(code, text, idx, detail) ==
    [code |-> code, text |-> text, idx |-> idx, detail |-> detail]

NoStatus == Status("pending", "", -1, "none")
OkResponse == Status("Ok", "", -1, "none")

\* the closure of the map: the Status an entry is rejected with, idx from 0
EntryError(entry, idx) ==
    IF ~ParsesAsUuid(entry.account)
    THEN Status("InvalidArgument", "account is not a valid UUID", idx, "none")
    ELSE IF entry.type \notin {"DEBIT", "CREDIT"}
    THEN Status("InvalidArgument", "type is unspecified or unknown", idx, "none")
    ELSE IF entry.amount = NoAmount
    THEN Status("InvalidArgument", "amount is required", idx, "none")
    ELSE NoStatus

\* .map(..).collect::<Result<Vec<_>, Status>>()? over entries[i..]: the error of
\* the first entry that has one
RECURSIVE Collect(_, _)
Collect(entries, i) ==
    IF i > Len(entries) THEN NoStatus
    ELSE LET e == EntryError(entries[i], i - 1)
         IN  IF e # NoStatus THEN e ELSE Collect(entries, i + 1)

\* the (Uuid, EntryType, i64) tuples handed to the repository
EntriesToCreate(entries) ==
    [i \in 1..Len(entries) |->
        [account |-> entries[i].account, type |-> entries[i].type,
         amount |-> entries[i].amount.amount_minor_units]]

\* e.to_string() on a psc_error::Error: Database is #[error(transparent)], the
\* text is the one of sqlx::Error
ErrorToString(res, failedAt) ==
    IF res = "Database"
    THEN [text |-> "sqlx::Error", detail |-> failedAt]
    ELSE [text |-> res, detail |-> "none"]

\* .map_err(|e| match e { BadRequest(msg) => invalid_argument(msg),
\*                        _ => internal(e.to_string()) })
MapErr(res, failedAt) ==
    IF res = "BadRequest"
    THEN Status("InvalidArgument",
                "Debit and credit amounts do not balance for journal entry",
                -1, "none")
    ELSE Status("Internal", ErrorToString(res, failedAt).text, -1,
                ErrorToString(res, failedAt).detail)

IdleService == [pc |-> "idle", entries |-> <<>>, res |-> NoStatus]

\* a post_journal that hands the entries to the repository before it has
\* validated them
PostJournalCallUnvalidated ==
    /\ svc.pc = "idle"
    /\ writer[1].pc = "idle"
    /\ \E entries \in JournalRequests :
          /\ svc' = [pc |-> "repository", entries |-> entries, res |-> NoStatus]
          /\ writer' = [writer EXCEPT ![1] =
                           [IdleWriter EXCEPT !.pc = "validate",
                                              !.entries = EntriesToCreate(entries)]]
    /\ UNCHANGED <<overflowChecks, db, tx, foreignKeys>>
    /\ UNCHANGED outsideService

\* post_journal up to its first await: the entries are validated and
\* transformed, the first invalid one ends the call; otherwise
\* create_journal_with_entries is entered
PostJournalCall ==
    /\ svc.pc = "idle"
    /\ writer[1].pc = "idle"
    /\ \E entries \in JournalRequests :
          LET e == Collect(entries, 1) IN
          IF e # NoStatus
          THEN /\ svc' = [pc |-> "done", entries |-> entries, res |-> e]
               /\ UNCHANGED writer
          ELSE /\ svc' = [pc |-> "repository", entries |-> entries,
                          res |-> NoStatus]
               /\ writer' = [writer EXCEPT ![1] =
                                [IdleWriter EXCEPT !.pc = "validate",
                                                   !.entries = EntriesToCreate(entries)]]
    /\ UNCHANGED <<overflowChecks, db, tx, foreignKeys>>
    /\ UNCHANGED outsideService

\* create_journal_with_entries has returned: an error is mapped to a Status,
\* Ok to the response; a panic of the repository unwinds through the handler
PostJournalReturn ==
    /\ svc.pc = "repository"
    /\ writer[1].pc = "done"
    /\ svc' = [svc EXCEPT !.pc = "done",
                          !.res = IF writer[1].res = "Ok" THEN OkResponse
                                  ELSE IF writer[1].res = "Panic"
                                  THEN Status("Panic", "", -1, "none")
                                  ELSE MapErr(writer[1].res, writer[1].failedAt)]
    /\ UNCHANGED <<overflowChecks, db, tx, writer, foreignKeys>>
    /\ UNCHANGED outsideService

\* a JournalService on an empty ledger, the schema with or without the
\* constraint on account_id
ServiceInit ==
    /\ LedgerInit
    /\ foreignKeys \in BOOLEAN
    /\ svc = IdleService

\* no JournalService, for the specifications of the other components
ServiceQuiet ==
    /\ foreignKeys = FALSE
    /\ svc = IdleService

\* one post_journal call and the repository call it makes
ServiceNext ==
    \/ PostJournalCall
    \/ ValidateBalance(1)
    \/ BeginTx(1)
    \/ InsertJournal(1)
    \/ InsertEntry(1)
    \/ CommitTx(1)
    \/ StorageFailure(1)
    \/ ForeignKeyViolation(1)
    \/ PostJournalReturn

(***************************************************************************)
(* psc-provider-gateway: MtnSandboxAdapter::deposit and withdraw.          *)
(***************************************************************************)
Requests == 1..NRequests
\* req.idempotency_key.is_empty()
EmptyKey == 0
\* cuid2(): a fresh identifier, different in every call
Cuid2(r) == 100 + r

IdleReq ==
    [pc |-> "idle", op |-> "none", key |-> EmptyKey, reference |-> 0,
     res |-> [tag |-> "pending", payment |-> 0, reference |-> 0],
     finalized |-> FALSE,   \* history: the key held a stored result at the start
     cached |-> 0]          \* history: that result

\* deposit(ctx, req): the reference is the idempotency key, or fresh without one
DepositCall(r, k) ==
    /\ req[r].pc = "idle"
    /\ req' = [req EXCEPT ![r] =
                 [IdleReq EXCEPT !.pc = "request_to_pay", !.op = "deposit",
                                 !.key = k,
                                 !.reference = IF k = EmptyKey THEN Cuid2(r) ELSE k,
                                 !.finalized = (k # EmptyKey /\ Live(redis, k, now)),
                                 !.cached = IF k # EmptyKey /\ Live(redis, k, now)
                                            THEN FromJson(redis[k].json).value ELSE 0]]
    /\ UNCHANGED <<providerLog, natsEvents>>
    /\ UNCHANGED <<idemVars, outsideGateway>>

\* withdraw(ctx, req): the reference is the idempotency key, or fresh without
\* one
WithdrawCall(r, k) ==
    /\ req[r].pc = "idle"
    /\ req' = [req EXCEPT ![r] =
                 [IdleReq EXCEPT !.pc = "transfer", !.op = "withdraw",
                                 !.key = k,
                                 !.reference = IF k = EmptyKey THEN Cuid2(r) ELSE k,
                                 !.finalized = (k # EmptyKey /\ Live(redis, k, now)),
                                 !.cached = IF k # EmptyKey /\ Live(redis, k, now)
                                            THEN FromJson(redis[k].json).value ELSE 0]]
    /\ UNCHANGED <<providerLog, natsEvents>>
    /\ UNCHANGED <<idemVars, outsideGateway>>

\* transfer(...).await: the provider receives the disbursement and answers
Transfer(r, ok) ==
    /\ req[r].pc = "transfer"
    /\ providerLog' = providerLog \cup {[reference |-> req[r].reference, by |-> r, ok |-> ok]}
    /\ req' = [req EXCEPT ![r] =
                 IF ok
                 THEN [@ EXCEPT !.pc = "publish"]
                 ELSE [@ EXCEPT !.pc = "done",
                                !.res = [tag |-> "ErrProvider", payment |-> 0,
                                         reference |-> 0]]]
    /\ UNCHANGED natsEvents
    /\ UNCHANGED <<idemVars, outsideGateway>>

\* requestto_pay(...).await: the provider receives the request and answers
RequestToPay(r, ok) ==
    /\ req[r].pc = "request_to_pay"
    /\ providerLog' = providerLog \cup {[reference |-> req[r].reference, by |-> r, ok |-> ok]}
    /\ req' = [req EXCEPT ![r] =
                 IF ok
                 THEN [@ EXCEPT !.pc = "publish"]
                 ELSE [@ EXCEPT !.pc = "done",
                                !.res = [tag |-> "ErrProvider", payment |-> 0,
                                         reference |-> 0]]]
    /\ UNCHANGED natsEvents
    /\ UNCHANGED <<idemVars, outsideGateway>>

\* the subject the status event of deposit and of withdraw is published on
Subject(op) ==
    IF op = "deposit" THEN "payments.status.update" ELSE "payouts.status.update"

\* nats_client.publish(...).await succeeds: Ok(payment) or Ok(payout), status
\* Pending
PublishEvent(r) ==
    /\ req[r].pc = "publish"
    /\ natsEvents' = natsEvents \cup {[subject |-> Subject(req[r].op),
                                       reference |-> req[r].reference, by |-> r]}
    /\ req' = [req EXCEPT ![r].pc = "done",
                          ![r].res = [tag |-> "Ok", payment |-> Cuid2(r),
                                      reference |-> req[r].reference]]
    /\ UNCHANGED providerLog
    /\ UNCHANGED <<idemVars, outsideGateway>>

\* nats_client.publish(...).await fails: map_err(...)? returns Error::Internal
PublishFails(r) ==
    /\ req[r].pc = "publish"
    /\ req' = [req EXCEPT ![r].pc = "done",
                          ![r].res = [tag |-> "ErrInternal", payment |-> 0,
                                      reference |-> 0]]
    /\ UNCHANGED <<providerLog, natsEvents>>
    /\ UNCHANGED <<idemVars, outsideGateway>>

GatewayInit ==
    /\ req = [r \in Requests |-> IdleReq]
    /\ providerLog = {}
    /\ natsEvents = {}

\* the gateway at rest
GatewayQuiet == GatewayInit

\* clients of the gateway; one caller of the idempotency store records results
\* under the keys the requests carry
GatewayNext ==
    \/ \E r \in Requests : \E k \in Keys \cup {EmptyKey} : DepositCall(r, k)
    \/ \E r \in Requests : \E k \in Keys \cup {EmptyKey} : WithdrawCall(r, k)
    \/ \E r \in Requests : \E ok \in BOOLEAN : RequestToPay(r, ok)
    \/ \E r \in Requests : \E ok \in BOOLEAN : Transfer(r, ok)
    \/ \E r \in Requests : PublishEvent(r)
    \/ \E r \in Requests : PublishFails(r)
    \/ \E k \in Keys, ttl \in Ttls : CheckAndSetCall(1, k, ttl)
    \/ CheckAndSetExec(1)
    \/ Tick

(***************************************************************************)
(* psc-retry: CircuitBreaker.                                              *)
(***************************************************************************)
Threads == 1..NThreads
\* the values of failure_threshold and success_threshold
Thresholds == 1..MaxThreshold
\* the values of timeout, in ticks of the clock
Timeouts == {1}

\* last_failure_time: None
NoInstant == -1

\* the breaker has never been opened
NoOpening == [at |-> NoInstant, from |-> "none"]

\* CircuitBreaker::new(config): Closed, both counters 0, no failure time
NewBreaker ==
    [state |-> "Closed", failure_count |-> 0, success_count |-> 0,
     last_failure_time |-> NoInstant]

\* a comparison that lets the breaker wait one tick longer than timeout
TimeoutElapsedLate(b, t) ==
    /\ b.last_failure_time # NoInstant
    /\ t - b.last_failure_time > cfg.timeout

\* last_failure_time.elapsed() >= self.config.timeout, read at instant t
TimeoutElapsed(b, t) ==
    /\ b.last_failure_time # NoInstant
    /\ t - b.last_failure_time >= cfg.timeout

\* can_execute run without interruption at instant t: [cb, ret]
SeqCanExecute(b, t) ==
    IF b.state # "Open" THEN [cb |-> b, ret |-> "true"]
    ELSE IF TimeoutElapsed(b, t)
         THEN [cb |-> [b EXCEPT !.state = "HalfOpen", !.success_count = 0],
               ret |-> "true"]
         ELSE [cb |-> b, ret |-> "false"]

\* record_success run without interruption
SeqRecordSuccess(b) ==
    LET b1 == [b EXCEPT !.failure_count = 0] IN
    IF b.state # "HalfOpen" THEN [cb |-> b1, ret |-> "unit"]
    ELSE IF b.success_count + 1 >= cfg.success_threshold
         THEN [cb |-> [b1 EXCEPT !.state = "Closed", !.success_count = 0],
               ret |-> "unit"]
         ELSE [cb |-> [b1 EXCEPT !.success_count = @ + 1], ret |-> "unit"]

\* record_failure run without interruption at instant t
SeqRecordFailure(b, t) ==
    LET b1 == [b EXCEPT !.failure_count = @ + 1] IN
    CASE b.state = "Closed" ->
           IF b1.failure_count >= cfg.failure_threshold
           THEN [cb |-> [b1 EXCEPT !.state = "Open", !.last_failure_time = t],
                 ret |-> "unit"]
           ELSE [cb |-> b1, ret |-> "unit"]
      [] b.state = "HalfOpen" ->
           [cb |-> [b1 EXCEPT !.state = "Open", !.last_failure_time = t,
                              !.success_count = 0],
            ret |-> "unit"]
      [] OTHER ->
           [cb |-> [b1 EXCEPT !.last_failure_time = t], ret |-> "unit"]

\* one breaker method run without interruption
SeqCall(op, b, t) ==
    CASE op = "can_execute" -> SeqCanExecute(b, t)
      [] op = "record_success" -> SeqRecordSuccess(b)
      [] OTHER -> SeqRecordFailure(b, t)

\* no snapshot of the breaker
NoPre == [state |-> "none", failure_count |-> 0, success_count |-> 0,
          last_failure_time |-> NoInstant]

\* the frame of a breaker method: where it stands, the state it read, the
\* counter value it obtained, what it returned; pre is history: the breaker
\* as the call found it, kept as long as no other call has run beside it
IdleFrame == [pc |-> "idle", op |-> "none", state |-> "none", n |-> 0,
              ret |-> "none", pre |-> NoPre]

\* no breaker method is running in thread t
AtRest(t) == bc[t].pc \in {"idle", "done"}

Quiescent == \A t \in Threads : AtRest(t)

\* thread t returns r from its breaker method
Return(t, r) ==
    [bc EXCEPT ![t] = [IdleFrame EXCEPT !.pc = "done", !.op = bc[t].op,
                                        !.ret = r, !.pre = bc[t].pre]]

\* threads whose frame carries a snapshot, and threads inside a method
Tracked == {t \in Threads : bc[t].pre # NoPre}

Running == {t \in Threads : ~AtRest(t)}

\* what a direct caller records of the breaker it finds: the breaker itself
\* when no call is running, the snapshot of the one call running beside it,
\* nothing when more calls have run since the breaker was at rest
Snapshot ==
    IF Quiescent THEN cb
    ELSE IF Cardinality(Tracked) = 1 /\ Tracked = Running
         THEN bc[CHOOSE u \in Tracked : TRUE].pre
         ELSE NoPre

\* thread t enters the method op and stands at pc after its first step, having
\* read state s, obtained count n and, at pc "done", returned r; the other
\* threads keep their snapshot only if they run beside this call
Enter(t, op, pc, s, n, r, pre) ==
    [u \in Threads |->
        IF u = t
        THEN [pc |-> pc, op |-> op, state |-> s, n |-> n, ret |-> r,
              pre |-> pre]
        ELSE IF pre # NoPre /\ ~Quiescent
             THEN bc[u]
             ELSE [bc[u] EXCEPT !.pre = NoPre]]

\* can_execute begins: let state = *self.state.read().await; Closed and
\* HalfOpen return true
CanExecuteEnter(t, pre) ==
    /\ bc' = IF cb.state = "Open"
             THEN Enter(t, "can_execute", "ce_read_lft", cb.state, 0, "none",
                        pre)
             ELSE Enter(t, "can_execute", "done", "none", 0, "true", pre)
    /\ UNCHANGED cb

\* a record_success that leaves failure_count as it is
RecordSuccessEnterKeep(t, pre) ==
    /\ bc' = Enter(t, "record_success", "rs_read_state", "none", 0, "none",
                   pre)
    /\ UNCHANGED cb

\* record_success begins: self.failure_count.store(0)
RecordSuccessEnter(t, pre) ==
    /\ cb' = [cb EXCEPT !.failure_count = 0]
    /\ bc' = Enter(t, "record_success", "rs_read_state", "none", 0, "none",
                   pre)

\* a record_failure that takes the count fetch_add returns, the one before its
\* own failure, for the new count
RecordFailureEnterOld(t, pre) ==
    /\ cb.failure_count < MaxFailures
    /\ cb' = [cb EXCEPT !.failure_count = @ + 1]
    /\ bc' = Enter(t, "record_failure", "rf_read_state", "none",
                   cb.failure_count, "none", pre)

\* record_failure begins:
\* new_failure_count = self.failure_count.fetch_add(1) + 1
RecordFailureEnter(t, pre) ==
    /\ cb.failure_count < MaxFailures
    /\ cb' = [cb EXCEPT !.failure_count = @ + 1]
    /\ bc' = Enter(t, "record_failure", "rf_read_state", "none",
                   cb.failure_count + 1, "none", pre)

\* the last_failure_time lock (tokio RwLock, fair): a thread that is not queued
\* gets the lock when nobody waits; a queued thread gets it at the head
LftFree(t) == IF lftQueue = <<>> THEN TRUE ELSE Head(lftQueue) = t

Queued(t) == \E i \in 1..Len(lftQueue) : lftQueue[i] = t

Dequeue(t) == IF Queued(t) THEN Tail(lftQueue) ELSE lftQueue

\* a direct caller runs can_execute up to its read of the state
CanExecuteCall(t) ==
    /\ AtRest(t)
    /\ ex[t].pc \in {"idle", "done"}
    /\ CanExecuteEnter(t, Snapshot)
    /\ UNCHANGED <<cfg, opened, lftReaders, lftQueue, clock, ex>>
    /\ UNCHANGED outsideRetry

\* a direct caller runs record_success up to its store to failure_count
RecordSuccessCall(t) ==
    /\ AtRest(t)
    /\ ex[t].pc \in {"idle", "done"}
    /\ RecordSuccessEnter(t, Snapshot)
    /\ UNCHANGED <<cfg, opened, lftReaders, lftQueue, clock, ex>>
    /\ UNCHANGED outsideRetry

\* a direct caller runs record_failure up to its fetch_add on failure_count
RecordFailureCall(t) ==
    /\ AtRest(t)
    /\ ex[t].pc \in {"idle", "done"}
    /\ RecordFailureEnter(t, Snapshot)
    /\ UNCHANGED <<cfg, opened, lftReaders, lftQueue, clock, ex>>
    /\ UNCHANGED outsideRetry

\* the methods of the breaker
Methods == {"can_execute", "record_success", "record_failure"}

\* a direct caller runs the first step of the method op, keeping no snapshot
\* of the breaker it finds
MethodCall(t, op) ==
    /\ AtRest(t)
    /\ ex[t].pc \in {"idle", "done"}
    /\ CASE op = "can_execute" -> CanExecuteEnter(t, NoPre)
         [] op = "record_success" -> RecordSuccessEnter(t, NoPre)
         [] OTHER -> RecordFailureEnter(t, NoPre)
    /\ UNCHANGED <<cfg, opened, lftReaders, lftQueue, clock, ex>>
    /\ UNCHANGED outsideRetry

\* a thread finds the last_failure_time lock taken or awaited and queues up
LftWait(t) ==
    /\ bc[t].pc \in {"ce_read_lft", "rf_write_lft"}
    /\ ~Queued(t)
    /\ \/ lftQueue # <<>>
       \/ bc[t].pc = "rf_write_lft" /\ lftReaders # {}
    /\ lftQueue' = Append(lftQueue, t)
    /\ UNCHANGED <<cfg, opened, cb, lftReaders, clock, bc, ex>>
    /\ UNCHANGED outsideRetry

\* a can_execute that rejects as long as the breaker is Open, however old its
\* last_failure_time
CanExecuteNeverProbes(t) ==
    /\ bc[t].pc = "ce_read_lft"
    /\ LftFree(t)
    /\ lftQueue' = Dequeue(t)
    /\ lftReaders' = lftReaders
    /\ bc' = Return(t, "false")
    /\ UNCHANGED <<cfg, opened, cb, clock, ex>>
    /\ UNCHANGED outsideRetry

\* can_execute, Open: take the read lock of last_failure_time and compare
\* elapsed() with timeout; false releases the lock, true keeps it
CanExecuteReadLft(t) ==
    /\ bc[t].pc = "ce_read_lft"
    /\ LftFree(t)
    /\ lftQueue' = Dequeue(t)
    /\ IF TimeoutElapsed(cb, clock)
       THEN /\ lftReaders' = lftReaders \cup {t}
            /\ bc' = [bc EXCEPT ![t].pc = "ce_write_state"]
       ELSE /\ lftReaders' = lftReaders
            /\ bc' = Return(t, "false")
    /\ UNCHANGED <<cfg, opened, cb, clock, ex>>
    /\ UNCHANGED outsideRetry

\* can_execute: *self.state.write().await = CircuitState::HalfOpen
CanExecuteHalfOpen(t) ==
    /\ bc[t].pc = "ce_write_state"
    /\ cb' = [cb EXCEPT !.state = "HalfOpen"]
    /\ bc' = [bc EXCEPT ![t].pc = "ce_store_sc"]
    /\ UNCHANGED <<cfg, opened, lftReaders, lftQueue, clock, ex>>
    /\ UNCHANGED outsideRetry

\* a can_execute whose read guard of last_failure_time outlives the call
CanExecuteKeepGuard(t) ==
    /\ bc[t].pc = "ce_store_sc"
    /\ cb' = [cb EXCEPT !.success_count = 0]
    /\ bc' = Return(t, "true")
    /\ UNCHANGED <<cfg, opened, lftReaders, lftQueue, clock, ex>>
    /\ UNCHANGED outsideRetry

\* can_execute: self.success_count.store(0); true; the read lock is released
CanExecuteResetSuccess(t) ==
    /\ bc[t].pc = "ce_store_sc"
    /\ cb' = [cb EXCEPT !.success_count = 0]
    /\ lftReaders' = lftReaders \ {t}
    /\ bc' = Return(t, "true")
    /\ UNCHANGED <<cfg, opened, lftQueue, clock, ex>>
    /\ UNCHANGED outsideRetry

\* record_success: let state = *self.state.read().await; nothing more to do
\* in Closed and in Open
RecordSuccessReadState(t) ==
    /\ bc[t].pc = "rs_read_state"
    /\ bc' = IF cb.state = "HalfOpen"
             THEN [bc EXCEPT ![t].pc = "rs_fetch_add", ![t].state = cb.state]
             ELSE Return(t, "unit")
    /\ UNCHANGED <<cfg, opened, cb, lftReaders, lftQueue, clock, ex>>
    /\ UNCHANGED outsideRetry

\* a record_success that closes the breaker one success after the threshold
RecordSuccessCountLate(t) ==
    /\ bc[t].pc = "rs_fetch_add"
    /\ cb' = [cb EXCEPT !.success_count = @ + 1]
    /\ bc' = IF cb.success_count + 1 > cfg.success_threshold
             THEN [bc EXCEPT ![t].pc = "rs_write_state",
                             ![t].n = cb.success_count + 1]
             ELSE Return(t, "unit")
    /\ UNCHANGED <<cfg, opened, lftReaders, lftQueue, clock, ex>>
    /\ UNCHANGED outsideRetry

\* record_success, HalfOpen: new_success_count = success_count.fetch_add(1) + 1
RecordSuccessCount(t) ==
    /\ bc[t].pc = "rs_fetch_add"
    /\ cb' = [cb EXCEPT !.success_count = @ + 1]
    /\ bc' = IF cb.success_count + 1 >= cfg.success_threshold
             THEN [bc EXCEPT ![t].pc = "rs_write_state",
                             ![t].n = cb.success_count + 1]
             ELSE Return(t, "unit")
    /\ UNCHANGED <<cfg, opened, lftReaders, lftQueue, clock, ex>>
    /\ UNCHANGED outsideRetry

\* record_success: *self.state.write().await = CircuitState::Closed
RecordSuccessClose(t) ==
    /\ bc[t].pc = "rs_write_state"
    /\ cb' = [cb EXCEPT !.state = "Closed"]
    /\ bc' = [bc EXCEPT ![t].pc = "rs_store_sc"]
    /\ UNCHANGED <<cfg, opened, lftReaders, lftQueue, clock, ex>>
    /\ UNCHANGED outsideRetry

\* record_success: self.success_count.store(0)
RecordSuccessResetSuccess(t) ==
    /\ bc[t].pc = "rs_store_sc"
    /\ cb' = [cb EXCEPT !.success_count = 0]
    /\ bc' = Return(t, "unit")
    /\ UNCHANGED <<cfg, opened, lftReaders, lftQueue, clock, ex>>
    /\ UNCHANGED outsideRetry

\* a record_failure that opens the breaker one failure after the threshold
RecordFailureReadStateLate(t) ==
    /\ bc[t].pc = "rf_read_state"
    /\ bc' = CASE cb.state = "Closed" ->
                    IF bc[t].n > cfg.failure_threshold
                    THEN [bc EXCEPT ![t].pc = "rf_write_state",
                                    ![t].state = cb.state]
                    ELSE Return(t, "unit")
               [] cb.state = "HalfOpen" ->
                    [bc EXCEPT ![t].pc = "rf_write_state",
                               ![t].state = cb.state]
               [] OTHER ->
                    [bc EXCEPT ![t].pc = "rf_write_lft", ![t].state = cb.state]
    /\ UNCHANGED <<cfg, opened, cb, lftReaders, lftQueue, clock, ex>>
    /\ UNCHANGED outsideRetry

\* record_failure: let state = *self.state.read().await and the match on it
RecordFailureReadState(t) ==
    /\ bc[t].pc = "rf_read_state"
    /\ bc' = CASE cb.state = "Closed" ->
                    IF bc[t].n >= cfg.failure_threshold
                    THEN [bc EXCEPT ![t].pc = "rf_write_state",
                                    ![t].state = cb.state]
                    ELSE Return(t, "unit")
               [] cb.state = "HalfOpen" ->
                    [bc EXCEPT ![t].pc = "rf_write_state",
                               ![t].state = cb.state]
               [] OTHER ->
                    [bc EXCEPT ![t].pc = "rf_write_lft", ![t].state = cb.state]
    /\ UNCHANGED <<cfg, opened, cb, lftReaders, lftQueue, clock, ex>>
    /\ UNCHANGED outsideRetry

\* record_failure, Closed or HalfOpen: *self.state.write().await = Open
RecordFailureOpen(t) ==
    /\ bc[t].pc = "rf_write_state"
    /\ cb' = [cb EXCEPT !.state = "Open"]
    /\ bc' = [bc EXCEPT ![t].pc = "rf_write_lft"]
    /\ opened' = IF cb.state = "Open" THEN opened
                  ELSE [at |-> clock, from |-> cb.state]
    /\ UNCHANGED <<cfg, lftReaders, lftQueue, clock, ex>>
    /\ UNCHANGED outsideRetry

\* record_failure: *self.last_failure_time.write().await = Some(Instant::now())
\* once no reader holds the lock
RecordFailureStamp(t) ==
    /\ bc[t].pc = "rf_write_lft"
    /\ LftFree(t)
    /\ lftReaders = {}
    /\ lftQueue' = Dequeue(t)
    /\ cb' = [cb EXCEPT !.last_failure_time = clock]
    /\ bc' = IF bc[t].state = "HalfOpen"
             THEN [bc EXCEPT ![t].pc = "rf_store_sc"]
             ELSE Return(t, "unit")
    /\ UNCHANGED <<cfg, opened, lftReaders, clock, ex>>
    /\ UNCHANGED outsideRetry

\* a record_failure that leaves success_count as it is
RecordFailureKeepSuccess(t) ==
    /\ bc[t].pc = "rf_store_sc"
    /\ bc' = Return(t, "unit")
    /\ UNCHANGED <<cfg, opened, cb, lftReaders, lftQueue, clock, ex>>
    /\ UNCHANGED outsideRetry

\* record_failure, HalfOpen: self.success_count.store(0)
RecordFailureResetSuccess(t) ==
    /\ bc[t].pc = "rf_store_sc"
    /\ cb' = [cb EXCEPT !.success_count = 0]
    /\ bc' = Return(t, "unit")
    /\ UNCHANGED <<cfg, opened, lftReaders, lftQueue, clock, ex>>
    /\ UNCHANGED outsideRetry

\* the tokio clock advances by one tick
ClockTick ==
    /\ clock < MaxClock
    /\ clock' = clock + 1
    /\ UNCHANGED <<cfg, opened, cb, lftReaders, lftQueue, bc, ex>>
    /\ UNCHANGED outsideRetry

\* the steps inside the three breaker methods, the wait for a lock apart
BreakerStep(t) ==
    \/ CanExecuteReadLft(t)
    \/ CanExecuteHalfOpen(t)
    \/ CanExecuteResetSuccess(t)
    \/ RecordSuccessReadState(t)
    \/ RecordSuccessCount(t)
    \/ RecordSuccessClose(t)
    \/ RecordSuccessResetSuccess(t)
    \/ RecordFailureReadState(t)
    \/ RecordFailureOpen(t)
    \/ RecordFailureStamp(t)
    \/ RecordFailureResetSuccess(t)

(***************************************************************************)
(* psc-retry: RetryPolicy and do_with_retry (the executor).                *)
(***************************************************************************)
\* the largest Duration, in ticks
MaxDuration == 2 ^ DurationBits - 1

\* the retry policies callers pass, durations in ticks: the backoff starts at
\* one tick or at the largest Duration and is capped at one tick
Policies ==
    [max_retries : 0..MaxRetries, initial_backoff : {1, MaxDuration},
     max_backoff : {1}, jitter : {FALSE}]

\* the callers of do_with_retry: thread 1, and one more caller that shares the
\* breaker with it
Executors == {1, 2}

\* what the callers pass: thread 1 any policy, with the breaker or without; the
\* other caller uses the breaker and does not retry
PoliciesOf(t) ==
    IF t = 1 THEN Policies
    ELSE {p \in Policies : p.max_retries = 0 /\ p.initial_backoff = 1}

BreakerChoices(t) == IF t = 1 THEN BOOLEAN ELSE {TRUE}

\* 2f64.powi(attempt)
RECURSIVE Pow2(_)
Pow2(n) == IF n = 0 THEN 1 ELSE 2 * Pow2(n - 1)

\* Duration::mul_f64 and mul_f32 panic when the product overflows Duration
Overflows(d) == d > MaxDuration

\* Duration::as_millis and Duration::from_millis: a millisecond is two ticks,
\* as_millis drops the part below a millisecond
AsMillis(d) == d \div 2

FromMillis(ms) == ms * 2

\* Duration::mul_f32(0.25): the quarter, rounded to the nearest tick by
\* from_secs_f32, a tie to the even one
MulQuarter(d) ==
    LET q == d \div 4
        r == d % 4
    IN  IF r < 2 THEN q
        ELSE IF r > 2 THEN q + 1
        ELSE IF q % 2 = 0 THEN q ELSE q + 1

\* calculate_backoff(attempt) with the random number rnd: [panic, backoff]
CalculateBackoff(policy, attempt, rnd) ==
    LET exponential_backoff == policy.initial_backoff * Pow2(attempt)
        backoff == IF exponential_backoff < policy.max_backoff
                   THEN exponential_backoff ELSE policy.max_backoff
        jitter_amount == MulQuarter(backoff)
        jitter == rnd % (AsMillis(jitter_amount) + 1)
    IN  IF Overflows(exponential_backoff)
        THEN [panic |-> TRUE, backoff |-> 0]
        ELSE IF policy.jitter
             THEN IF Overflows(backoff + FromMillis(jitter))
                  THEN [panic |-> TRUE, backoff |-> 0]
                  ELSE [panic |-> FALSE, backoff |-> backoff + FromMillis(jitter)]
             ELSE [panic |-> FALSE, backoff |-> backoff]

\* the values of rand::random::<u64>() told apart: up to one more than the
\* largest jitter in milliseconds
AllRandoms == 0..(AsMillis(MulQuarter(MaxDuration)) + 1)

\* the values of rand::random::<u64>() a policy can draw
Randoms(policy) == IF policy.jitter THEN AllRandoms ELSE {0}

\* the inputs of calculate_backoff: any two durations, jitter on or off, and
\* the attempts a policy of at most MaxRetries retries reaches
BackoffPolicies ==
    [max_retries : {MaxRetries}, initial_backoff : 1..MaxDuration,
     max_backoff : 1..MaxDuration, jitter : BOOLEAN]

Attempts == 0..MaxRetries

NoBackoff == [panic |-> FALSE, backoff |-> 0]

\* a call of calculate_backoff is about to be made
BackoffInit ==
    bo \in [pc : {"idle"}, policy : BackoffPolicies, attempt : Attempts,
            rnd : AllRandoms, out : {NoBackoff}]

\* no call of calculate_backoff, for the specifications of the other components
BackoffQuiet ==
    bo = [pc |-> "idle",
          policy |-> [max_retries |-> MaxRetries, initial_backoff |-> 1,
                      max_backoff |-> 1, jitter |-> FALSE],
          attempt |-> 0, rnd |-> 0, out |-> NoBackoff]

\* policy.calculate_backoff(attempt) runs and returns, or panics
CalculateBackoffCall ==
    /\ bo.pc = "idle"
    /\ bo' = [bo EXCEPT !.pc = "done",
                        !.out = CalculateBackoff(bo.policy, bo.attempt, bo.rnd)]
    /\ UNCHANGED outsideBackoff

BackoffNext == CalculateBackoffCall

\* results of do_with_retry: tag in pending | Ok | AttemptsExhausted |
\* CircuitBreakerOpen | Panic; val is the value or the error carried
ExecRes(tag, val) == [tag |-> tag, val |-> val]

\* the frame of do_with_retry: its arguments, its local attempt, the instant
\* its sleep ends, its result; invocations, failures, recordings and sleeps
\* count what the call has done so far
IdleExec ==
    [pc |-> "idle", policy |-> [max_retries |-> 0, initial_backoff |-> 1,
                                max_backoff |-> 1, jitter |-> FALSE],
     breaker |-> FALSE, attempt |-> 0, wake |-> 0, error |-> 0,
     res |-> ExecRes("pending", 0),
     invocations |-> 0, failures |-> 0, recordings |-> 0, sleeps |-> 0]

\* do_with_retry returns
Finish(t, tag, val) ==
    [ex EXCEPT ![t].pc = "done", ![t].res = ExecRes(tag, val), ![t].wake = 0,
               ![t].error = 0]

\* a caller enters do_with_retry(policy, circuit_breaker, operation): with a
\* breaker it first asks cb.can_execute(); each caller makes one call
ExecuteCall(t, policy, breaker) ==
    /\ AtRest(t)
    /\ ex[t].pc = "idle"
    /\ IF breaker
       THEN /\ CanExecuteEnter(t, NoPre)
            /\ ex' = [ex EXCEPT ![t] = [IdleExec EXCEPT !.pc = "gate",
                                   !.policy = policy, !.breaker = TRUE]]
       ELSE /\ ex' = [ex EXCEPT ![t] = [IdleExec EXCEPT !.pc = "invoke",
                                   !.policy = policy]]
            /\ UNCHANGED <<cb, bc>>
    /\ UNCHANGED <<cfg, opened, lftReaders, lftQueue, clock>>
    /\ UNCHANGED outsideRetry

\* a gate that lets the call through when can_execute returned false
ExecuteGateOpen(t) ==
    /\ ex[t].pc = "gate"
    /\ bc[t].pc = "done"
    /\ bc[t].ret = "false"
    /\ ex' = [ex EXCEPT ![t].pc = "invoke"]
    /\ UNCHANGED <<cfg, opened, cb, lftReaders, lftQueue, clock, bc>>
    /\ UNCHANGED outsideRetry

\* if !cb.can_execute().await { return Err(CircuitBreakerOpen) }, at the start
ExecuteGate(t) ==
    /\ ex[t].pc = "gate"
    /\ bc[t].pc = "done"
    /\ bc[t].ret = "false"
    /\ ex' = Finish(t, "CircuitBreakerOpen", 0)
    /\ UNCHANGED <<cfg, opened, cb, lftReaders, lftQueue, clock, bc>>
    /\ UNCHANGED outsideRetry

\* the loop reaches op().await: at the start without a breaker, after a
\* can_execute that returned true, or when the sleep has ended
ReadyToInvoke(t) ==
    \/ ex[t].pc = "invoke"
    \/ ex[t].pc = "gate" /\ bc[t].pc = "done" /\ bc[t].ret = "true"
    \/ ex[t].pc = "sleep" /\ clock >= ex[t].wake

\* attempt += 1; past max_retries return AttemptsExhausted(error), else
\* compute the backoff and start sleep(backoff)
CountAttempt(t, error, rnd) ==
    LET attempt == ex[t].attempt + 1
        b == CalculateBackoff(ex[t].policy, attempt, rnd)
    IN  IF attempt > ex[t].policy.max_retries
        THEN [Finish(t, "AttemptsExhausted", error) EXCEPT ![t].attempt = attempt]
        ELSE IF b.panic
             THEN [Finish(t, "Panic", 0) EXCEPT ![t].attempt = attempt]
             ELSE [ex EXCEPT ![t].pc = "sleep", ![t].attempt = attempt,
                             ![t].wake = clock + b.backoff,
                             ![t].sleeps = @ + 1]

\* a loop that returns Ok(result) without telling the breaker
InvokeOkUnrecorded(t) ==
    /\ ReadyToInvoke(t)
    /\ LET n == ex[t].invocations + 1 IN
       ex' = [Finish(t, "Ok", n) EXCEPT ![t].invocations = n]
    /\ UNCHANGED <<cfg, opened, cb, lftReaders, lftQueue, clock, bc>>
    /\ UNCHANGED outsideRetry

\* match op().await, Ok(result): the operation is invoked and succeeds; with
\* a breaker record_success is called, without one Ok(result) is returned
InvokeOk(t) ==
    /\ ReadyToInvoke(t)
    /\ LET n == ex[t].invocations + 1 IN
       IF ex[t].breaker
       THEN /\ RecordSuccessEnter(t, NoPre)
            /\ ex' = [ex EXCEPT ![t].pc = "rec_ok", ![t].invocations = n,
                                ![t].recordings = @ + 1,
                                ![t].res = ExecRes("pending", n)]
       ELSE /\ ex' = [Finish(t, "Ok", n) EXCEPT ![t].invocations = n]
            /\ UNCHANGED <<cb, bc>>
    /\ UNCHANGED <<cfg, opened, lftReaders, lftQueue, clock>>
    /\ UNCHANGED outsideRetry

\* cb.record_success().await has returned: return Ok(result)
ExecuteOk(t) ==
    /\ ex[t].pc = "rec_ok"
    /\ bc[t].pc = "done"
    /\ ex' = Finish(t, "Ok", ex[t].res.val)
    /\ UNCHANGED <<cfg, opened, cb, lftReaders, lftQueue, clock, bc>>
    /\ UNCHANGED outsideRetry

\* match op().await, Err(error): the operation is invoked and fails with an
\* error of its own; with a breaker record_failure is called, without one the
\* attempt is counted
InvokeErr(t) ==
    /\ ReadyToInvoke(t)
    /\ \E rnd \in Randoms(ex[t].policy) :
       LET n == ex[t].invocations + 1 IN
       IF ex[t].breaker
       THEN /\ RecordFailureEnter(t, NoPre)
            /\ ex' = [ex EXCEPT ![t].pc = "rec_err", ![t].invocations = n,
                                ![t].failures = @ + 1, ![t].error = n,
                                ![t].recordings = @ + 1]
       ELSE /\ ex' = [CountAttempt(t, n, rnd) EXCEPT ![t].invocations = n,
                                ![t].failures = @ + 1, ![t].error = n]
            /\ UNCHANGED <<cb, bc>>
    /\ UNCHANGED <<cfg, opened, lftReaders, lftQueue, clock>>
    /\ UNCHANGED outsideRetry

\* cb.record_failure().await has returned: ask cb.can_execute() again
ExecuteRecheck(t) ==
    /\ ex[t].pc = "rec_err"
    /\ bc[t].pc = "done"
    /\ CanExecuteEnter(t, NoPre)
    /\ ex' = [ex EXCEPT ![t].pc = "recheck"]
    /\ UNCHANGED <<cfg, opened, lftReaders, lftQueue, clock>>
    /\ UNCHANGED outsideRetry

\* a loop that counts the attempt whatever can_execute returned
ExecuteRetryAnyway(t) ==
    /\ ex[t].pc = "recheck"
    /\ bc[t].pc = "done"
    /\ \E rnd \in Randoms(ex[t].policy) :
          ex' = CountAttempt(t, ex[t].error, rnd)
    /\ UNCHANGED <<cfg, opened, cb, lftReaders, lftQueue, clock, bc>>
    /\ UNCHANGED outsideRetry

\* if !cb.can_execute().await { return Err(CircuitBreakerOpen) } after a
\* recorded failure; otherwise the attempt is counted
ExecuteRetry(t) ==
    /\ ex[t].pc = "recheck"
    /\ bc[t].pc = "done"
    /\ \E rnd \in Randoms(ex[t].policy) :
          ex' = IF bc[t].ret = "false"
                THEN Finish(t, "CircuitBreakerOpen", 0)
                ELSE CountAttempt(t, ex[t].error, rnd)
    /\ UNCHANGED <<cfg, opened, cb, lftReaders, lftQueue, clock, bc>>
    /\ UNCHANGED outsideRetry

\* a future that records a failure on the breaker when it is dropped asleep
CancelSleepRecords(t) ==
    /\ ex[t].pc = "sleep"
    /\ clock < ex[t].wake
    /\ ex[t].breaker
    /\ cb.failure_count < MaxFailures
    /\ cb' = [cb EXCEPT !.failure_count = @ + 1]
    /\ ex' = [ex EXCEPT ![t].pc = "cancelled", ![t].wake = 0, ![t].error = 0,
                        ![t].recordings = @ + 1]
    /\ UNCHANGED <<cfg, opened, lftReaders, lftQueue, clock, bc>>
    /\ UNCHANGED outsideRetry

\* the caller drops the future of do_with_retry (cancellation, or a timeout
\* around it) while it is suspended in sleep(backoff).await: the frame is
\* dropped with its locals, no later line of the function runs
CancelSleep(t) ==
    /\ ex[t].pc = "sleep"
    /\ clock < ex[t].wake
    /\ ex' = [ex EXCEPT ![t].pc = "cancelled", ![t].wake = 0, ![t].error = 0]
    /\ UNCHANGED <<cfg, opened, cb, lftReaders, lftQueue, clock, bc>>
    /\ UNCHANGED outsideRetry

\* CircuitBreaker::new(config); no call has been made
RetryInit ==
    /\ cfg \in [failure_threshold : Thresholds, success_threshold : Thresholds,
                timeout : Timeouts]
    /\ cb = NewBreaker
    /\ lftReaders = {}
    /\ lftQueue = <<>>
    /\ clock = 0
    /\ bc = [t \in Threads |-> IdleFrame]
    /\ ex = [t \in Threads |-> IdleExec]
    /\ opened = NoOpening

\* the breaker at rest, for the specifications of the other components
RetryQuiet ==
    /\ cfg = [failure_threshold |-> 1, success_threshold |-> 1, timeout |-> 1]
    /\ cb = NewBreaker
    /\ lftReaders = {}
    /\ lftQueue = <<>>
    /\ clock = 0
    /\ bc = [t \in Threads |-> IdleFrame]
    /\ ex = [t \in Threads |-> IdleExec]
    /\ opened = NoOpening

\* the caller has the result of its call and is free to call do_with_retry
\* again
ExecuteAgain(t) ==
    /\ ex[t].pc = "done"
    /\ ex' = [ex EXCEPT ![t] = IdleExec]
    /\ UNCHANGED <<cfg, opened, cb, lftReaders, lftQueue, clock, bc>>
    /\ UNCHANGED outsideRetry

\* a breaker that failures have opened at instant clock: Open, failure_count
\* at the threshold, last_failure_time written, no call in progress
RecoveryInit ==
    /\ cfg \in [failure_threshold : Thresholds, success_threshold : Thresholds,
                timeout : Timeouts]
    /\ clock \in 0..(MaxClock - 1)
    /\ cb = [state |-> "Open", failure_count |-> cfg.failure_threshold,
             success_count |-> 0, last_failure_time |-> clock]
    /\ opened = [at |-> clock, from |-> "Closed"]
    /\ lftReaders = {}
    /\ lftQueue = <<>>
    /\ bc = [t \in Threads |-> IdleFrame]
    /\ ex = [t \in Threads |-> IdleExec]

\* the steps of caller t when it calls do_with_retry with the breaker over
\* and over and its operation succeeds each time
RecoveryStep(t) ==
    \/ \E p \in PoliciesOf(t) : ExecuteCall(t, p, TRUE)
    \/ ExecuteGate(t)
    \/ InvokeOk(t)
    \/ ExecuteOk(t)
    \/ ExecuteAgain(t)
    \/ CanExecuteReadLft(t)
    \/ CanExecuteHalfOpen(t)
    \/ CanExecuteResetSuccess(t)
    \/ RecordSuccessReadState(t)
    \/ RecordSuccessCount(t)
    \/ RecordSuccessClose(t)
    \/ RecordSuccessResetSuccess(t)

\* one caller of the methods of a CircuitBreaker, one call after the other
BreakerSeqNext ==
    \/ CanExecuteCall(1)
    \/ RecordSuccessCall(1)
    \/ RecordFailureCall(1)
    \/ BreakerStep(1)
    \/ ClockTick

\* concurrent callers of the methods of one CircuitBreaker
BreakerNext ==
    \/ \E t \in Threads :
          \/ CanExecuteCall(t)
          \/ RecordSuccessCall(t)
          \/ RecordFailureCall(t)
          \/ BreakerStep(t)
          \/ LftWait(t)
    \/ ClockTick

\* two concurrent callers of the methods of one CircuitBreaker
LocksNext ==
    \/ \E t \in Executors :
          \/ \E op \in Methods : MethodCall(t, op)
          \/ BreakerStep(t)
          \/ LftWait(t)
    \/ ClockTick

\* concurrent callers of record_failure and of no other method
FailuresNext ==
    \/ \E t \in Threads :
          \/ RecordFailureCall(t)
          \/ RecordFailureReadState(t)
          \/ RecordFailureOpen(t)
          \/ RecordFailureStamp(t)
    \/ ClockTick

\* concurrent callers of do_with_retry, sharing one CircuitBreaker
RetryNext ==
    \/ \E t \in Executors :
          \/ \E p \in PoliciesOf(t), b \in BreakerChoices(t) :
                ExecuteCall(t, p, b)
          \/ ExecuteGate(t)
          \/ InvokeOk(t)
          \/ ExecuteOk(t)
          \/ InvokeErr(t)
          \/ ExecuteRecheck(t)
          \/ ExecuteRetry(t)
          \/ CancelSleep(t)
          \/ BreakerStep(t)
          \/ LftWait(t)
    \/ ClockTick

\* concurrent callers of do_with_retry on an Open breaker, operations that
\* succeed
RecoveryNext ==
    \/ \E t \in Executors :
          \/ \E p \in PoliciesOf(t) : ExecuteCall(t, p, TRUE)
          \/ ExecuteGate(t)
          \/ InvokeOk(t)
          \/ ExecuteOk(t)
          \/ ExecuteAgain(t)
          \/ CanExecuteReadLft(t)
          \/ CanExecuteHalfOpen(t)
          \/ CanExecuteResetSuccess(t)
          \/ RecordSuccessReadState(t)
          \/ RecordSuccessCount(t)
          \/ RecordSuccessClose(t)
          \/ RecordSuccessResetSuccess(t)
    \/ ClockTick

(***************************************************************************)
(* Specifications.                                                         *)
(***************************************************************************)
\* concurrent callers of one RedisIdempotencyStore
InitIdemSpec == IdemInit /\ LedgerQuiet /\ GatewayQuiet /\ RetryQuiet /\ BackoffQuiet
    /\ ServiceQuiet
SpecIdem == InitIdemSpec /\ [][IdemNext]_vars

\* concurrent callers of one LedgerRepository
InitLedgerSpec == LedgerInit /\ IdemInit /\ GatewayQuiet /\ RetryQuiet /\ BackoffQuiet
    /\ ServiceQuiet
SpecLedger == InitLedgerSpec /\ [][LedgerNext]_vars

\* concurrent deposit requests on one MtnSandboxAdapter, beside the store
InitGatewaySpec == GatewayInit /\ IdemInit /\ LedgerQuiet /\ RetryQuiet /\ BackoffQuiet
    /\ ServiceQuiet
SpecGateway == InitGatewaySpec /\ [][GatewayNext]_vars

\* concurrent callers of the methods of one CircuitBreaker
InitBreakerSpec == RetryInit /\ IdemInit /\ LedgerQuiet /\ GatewayQuiet /\ BackoffQuiet
    /\ ServiceQuiet
SpecBreaker == InitBreakerSpec /\ [][BreakerNext]_vars

\* two concurrent callers of the methods of one CircuitBreaker that opens at
\* the first failure and closes at the first success, each polled by the
\* runtime as long as it can run: a method in progress takes its next step,
\* or queues for the lock it finds taken
InitLocksSpec ==
    /\ InitBreakerSpec
    /\ cfg.failure_threshold = 1
    /\ cfg.success_threshold = 1
SpecLocks ==
    /\ InitLocksSpec
    /\ [][LocksNext]_vars
    /\ \A t \in Executors : WF_vars(BreakerStep(t) \/ LftWait(t))

\* concurrent callers of record_failure on a new CircuitBreaker
InitFailuresSpec == RetryInit /\ IdemInit /\ LedgerQuiet /\ GatewayQuiet /\ BackoffQuiet
    /\ ServiceQuiet
SpecFailures == InitFailuresSpec /\ [][FailuresNext]_vars

\* one caller of the methods of a CircuitBreaker
InitBreakerSeqSpec == RetryInit /\ IdemInit /\ LedgerQuiet /\ GatewayQuiet /\ BackoffQuiet
    /\ ServiceQuiet
SpecBreakerSeq == InitBreakerSeqSpec /\ [][BreakerSeqNext]_vars

\* concurrent callers of do_with_retry, with one CircuitBreaker or with none
InitRetrySpec == RetryInit /\ IdemInit /\ LedgerQuiet /\ GatewayQuiet /\ BackoffQuiet
    /\ ServiceQuiet
SpecRetry == InitRetrySpec /\ [][RetryNext]_vars

\* an Open breaker, time that advances, callers that keep calling
\* do_with_retry: the runtime polls every task that can run, and the clock
\* goes on
InitRecoverySpec == RecoveryInit /\ IdemInit /\ LedgerQuiet /\ GatewayQuiet
    /\ BackoffQuiet /\ ServiceQuiet
SpecRecovery ==
    /\ InitRecoverySpec
    /\ [][RecoveryNext]_vars
    /\ \A t \in Executors : WF_vars(RecoveryStep(t))
    /\ WF_vars(ClockTick)

\* one call of calculate_backoff on any policy
InitBackoffSpec == BackoffInit /\ IdemInit /\ LedgerQuiet /\ GatewayQuiet /\ RetryQuiet
    /\ ServiceQuiet
SpecBackoff == InitBackoffSpec /\ [][BackoffNext]_vars

\* one post_journal call on a JournalService
InitServiceSpec == ServiceInit /\ IdemInit /\ GatewayQuiet /\ RetryQuiet /\ BackoffQuiet
SpecService == InitServiceSpec /\ [][ServiceNext]_vars

(***************************************************************************)
(* Claims on the idempotency store.                                        *)
(***************************************************************************)
\* caller c's check_and_set returns Ok(bool) in this step
CasReturns(c) ==
    /\ call[c].pc = "running" /\ call[c].op = "cas"
    /\ call'[c].pc = "done" /\ call'[c].res.tag = "Bool"

\* caller c's get_result returns Ok(option) in this step
GetReturns(c) ==
    /\ call[c].pc = "running" /\ call[c].op = "get"
    /\ call'[c].pc = "done" /\ call'[c].res.tag \in {"None", "Some"}

CasDone(c) == call[c].pc = "done" /\ call[c].op = "cas" /\ call[c].res.tag = "Bool"

\* C1 as stated: among check_and_set calls that run concurrently on a key that
\* was absent when they started, exactly one returns true: a call during which
\* another call returned true returns false, and a call returns false only if
\* another call returned true while it ran.
C1_ExactlyOneTrue ==
    \A c \in Callers :
        CasDone(c) =>
            /\ call[c].overlapped => call[c].res = OkBool(FALSE)
            /\ (call[c].absentAtStart /\ call[c].res = OkBool(FALSE)) => call[c].overlapped

\* C1 amended: among concurrent check_and_set calls on an initially absent key
\* exactly one returns true and the others return false as long as the record
\* stored by the winner has not expired when they execute; a call that executes
\* when no stored record is live stores its payload and returns true.
C1_ExactlyOneTrueWhileLive ==
    [][\A c \in Callers :
         CasReturns(c) =>
            LET k == call[c].key
                live == \E w \in liveWins[k] : now < w.exp
            IN /\ live => call'[c].res = OkBool(FALSE)
               /\ ~live => call'[c].res = OkBool(TRUE)
               /\ (call[c].absentAtStart /\ call'[c].res = OkBool(FALSE))
                     => call[c].overlapped]_vars

\* C1 witness: every caller has run check_and_set on the same key, absent when
\* each of them started; one returned true and all the others false.
C1_Witness ==
    \E k \in Keys :
        /\ \A c \in Callers : CasDone(c) /\ call[c].key = k /\ call[c].absentAtStart
        /\ Cardinality({c \in Callers : call[c].res = OkBool(TRUE)}) = 1
        /\ Cardinality({c \in Callers : call[c].res = OkBool(FALSE)}) = NCallers - 1

\* C2 as stated: a get_result that starts after a check_and_set(k, p, ttl)
\* returned true returns p, always.
C2_GetAlwaysReturnsStored ==
    [][\A c \in Callers :
         (GetReturns(c) /\ call[c].wonBefore) =>
            call'[c].res = OkSome(lastWin[call[c].key].payload)]_vars

\* C2 amended: once check_and_set(k, p, ttl) has returned true, every
\* get_result(k) that executes before the ttl of that record has elapsed
\* returns p, whatever other check_and_set calls are made on k.
C2_GetReturnsStoredWhileLive ==
    [][\A c \in Callers :
         GetReturns(c) =>
            \A w \in liveWins[call[c].key] :
                now < w.exp => call'[c].res = OkSome(w.payload)]_vars

\* C2 witness: a check_and_set with another payload has returned false and a
\* get_result has returned the payload stored first.
C2_Witness ==
    \E c, d \in Callers :
        /\ c # d
        /\ CasDone(d) /\ call[d].res = OkBool(FALSE)
        /\ call[c].pc = "done" /\ call[c].op = "get" /\ call[c].key = call[d].key
        /\ call[c].res = OkSome(PayloadOf(c))

\* C3 as stated: after the first check_and_set on a key that returned true,
\* every later check_and_set on the key returns false and leaves the stored
\* record unchanged.
C3_OnePayloadEver ==
    [][\A c \in Callers :
         (CasReturns(c) /\ call[c].wonBefore) =>
            /\ call'[c].res = OkBool(FALSE)
            /\ redis'[call[c].key] = redis[call[c].key]]_vars

\* C3 amended: at most one payload is stored under a key at a time: as long as
\* the ttl of the record stored by a true check_and_set has not elapsed, every
\* check_and_set on the key returns false and every step leaves the payload and
\* the expiry of the record as that call stored them.
C3_OnePayloadWhileLive ==
    [][\A k \in Keys : \A w \in liveWins[k] :
         now < w.exp =>
            /\ redis[k] = [present |-> TRUE, json |-> ToJson(w.payload), exp |-> w.exp]
            /\ redis'[k] = redis[k]
            /\ \A c \in Callers :
                 (CasReturns(c) /\ call[c].key = k) => call'[c].res = OkBool(FALSE)]_vars

\* C3 witness: a check_and_set that started after one had returned true has
\* returned false, and the record of the first is still the live one.
C3_Witness ==
    \E c \in Callers :
        /\ CasDone(c) /\ call[c].wonBefore /\ call[c].res = OkBool(FALSE)
        /\ Live(redis, call[c].key, now)
        /\ FromJson(redis[call[c].key].json).value # call[c].payload

\* C4: get_result returns none exactly when no check_and_set ever stored the
\* key or the ttl of the latest stored record has elapsed; otherwise it returns
\* that record's value; and no step of get_result changes the keyspace.
C4_GetResult ==
    [][\A c \in Callers :
         /\ GetReturns(c) =>
              LET w == lastWin[call[c].key]
                  gone == ~w.won \/ now >= w.exp
              IN /\ (call'[c].res = OkNone) <=> gone
                 /\ ~gone => call'[c].res = OkSome(w.payload)
         /\ (call'[c] # call[c] /\ call'[c].op = "get") => redis' = redis]_vars

\* C4 witness: of two get_result calls on a key that was stored, one has
\* returned the stored value and the other, after the ttl, none.
C4_Witness ==
    \E c, d \in Callers :
        /\ call[c].pc = "done" /\ call[c].op = "get" /\ call[c].res.tag = "Some"
        /\ call[d].pc = "done" /\ call[d].op = "get" /\ call[d].res = OkNone
        /\ call[d].key = call[c].key
        /\ lastWin[call[d].key].won /\ now >= lastWin[call[d].key].exp

(***************************************************************************)
(* Claims on the ledger.                                                   *)
(***************************************************************************)
WriterDone(w) == writer[w].pc = "done"
Failed(w) == WriterDone(w) /\ writer[w].res # "Ok"
RowsOf(w) == {r \in db : r.journal = w}
AllRowsOf(w) ==
    {JournalRow(w)} \cup
    {EntryRow(w, i, writer[w].entries[i]) : i \in 1..Len(writer[w].entries)}

\* C5: a call of create_journal_with_entries that meets no storage failure
\* commits the journal if and only if the sum of the Debit amounts equals the
\* sum of the Credit amounts.
C5_CommitIffBalanced ==
    \A w \in Writers :
        (WriterDone(w) /\ writer[w].res \in {"Ok", "BadRequest"}) =>
            (writer[w].res = "Ok"
                <=> TrueSum(writer[w].entries, 1, "DEBIT")
                      = TrueSum(writer[w].entries, 1, "CREDIT"))

\* C6: after a call of create_journal_with_entries has failed, on the balance
\* check or on a storage failure at any step, the tables hold no row of its
\* journal and none of its entries, and nothing of it is pending.
C6_FailureLeavesNoRows ==
    \A w \in Writers : Failed(w) => (RowsOf(w) = {} /\ tx[w] = {})

\* C6 witness: a call has failed at commit, after its journal row and all of
\* its entries had been inserted.
C6_Witness ==
    \E w \in Writers :
        /\ Failed(w) /\ writer[w].res = "Database" /\ writer[w].failedAt = "commit"
        /\ Len(writer[w].entries) = MaxEntries

\* C7: at every moment the committed tables show, of each journal, either no
\* row at all or the journal row with every one of its entries; rows appear
\* only with the commit of the call.
C7_JournalVisibleOnlyWhole ==
    \A w \in Writers :
        /\ RowsOf(w) \in {{}, AllRowsOf(w)}
        /\ RowsOf(w) # {} => (WriterDone(w) /\ writer[w].res = "Ok")

\* C7 witness: one journal is committed with its entries while another call
\* holds its journal row and an entry in its open transaction.
C7_Witness ==
    \E w, v \in Writers :
        /\ w # v
        /\ writer[w].pc \in {"insert_entries", "commit"}
        /\ Cardinality(tx[w]) >= 2
        /\ RowsOf(w) = {}
        /\ RowsOf(v) = AllRowsOf(v) /\ Cardinality(RowsOf(v)) >= 3

(***************************************************************************)
(* Claims on the payment request.                                          *)
(***************************************************************************)
\* C8: for any idempotency key the provider operation is executed at most
\* once, whatever retries and duplicates of the request are submitted.
C8_AtMostOncePerKey ==
    \A k \in Keys :
        Cardinality({e \in providerLog : e.reference = k /\ e.ok}) <= 1

\* C9: a payment request whose idempotency key held a stored result when the
\* request came in makes no provider call and returns the stored result.
C9_FinalizedReturnsStored ==
    \A r \in Requests :
        req[r].finalized =>
            /\ \A e \in providerLog : e.by # r
            /\ req[r].pc = "done" =>
                  (req[r].res.tag = "Ok" /\ req[r].res.payment = req[r].cached)

\* C30: a deposit or withdraw whose provider call succeeded returns the
\* pending payment or payout, whether its status event was published or not.
C30_PublishIsBestEffort ==
    \A r \in Requests :
        (/\ req[r].pc = "done"
         /\ \E e \in providerLog : e.by = r /\ e.ok) =>
            /\ req[r].res.tag = "Ok"
            /\ req[r].res.reference = req[r].reference

(***************************************************************************)
(* Claims on the circuit breaker.                                          *)
(***************************************************************************)
\* thread t's breaker call returns in this step, no other call having run
\* beside it since it found the breaker at rest
AloneReturn(t) ==
    /\ bc'[t].pc = "done"
    /\ bc'[t].pre # NoPre
    /\ bc[t].pc # "done" \/ bc'[t] # bc[t]
    /\ \A u \in Threads \ {t} : bc'[u].pre = NoPre

\* thread t's call of op, made alone on a breaker in state s, has returned
AloneDone(t, op, s) ==
    /\ bc[t].pc = "done"
    /\ bc[t].op = op
    /\ bc[t].pre.state = s
    /\ \A u \in Threads \ {t} : bc[u].pre = NoPre

\* C12: a record_failure on a Closed breaker leaves it Open, last_failure_time
\* stamped with the current instant, exactly when it brings failure_count to
\* failure_threshold; otherwise the breaker stays Closed with its
\* last_failure_time. A can_execute on a Closed breaker returns true, and a
\* can_execute made on the Open breaker at the instant of the stamp returns
\* false.
C12_ClosedOpensAtThreshold ==
    [][\A t \in Threads :
         AloneReturn(t) =>
           LET pre == bc'[t].pre IN
           /\ (bc'[t].op = "record_failure" /\ pre.state = "Closed") =>
                 /\ cb'.failure_count = pre.failure_count + 1
                 /\ IF pre.failure_count + 1 = cfg.failure_threshold
                    THEN /\ cb'.state = "Open"
                         /\ cb'.last_failure_time = clock'
                    ELSE /\ cb'.state = "Closed"
                         /\ cb'.last_failure_time = pre.last_failure_time
           /\ (bc'[t].op = "can_execute" /\ pre.state = "Closed") =>
                 bc'[t].ret = "true" /\ cb' = pre
           /\ (bc'[t].op = "can_execute" /\ pre.state = "Open"
                 /\ pre.last_failure_time = clock') =>
                 bc'[t].ret = "false"]_vars

\* C12 witness: with failure_threshold 2 a second record_failure has opened the
\* Closed breaker and stamped last_failure_time.
C12_Witness ==
    /\ cfg.failure_threshold = 2
    /\ AloneDone(1, "record_failure", "Closed")
    /\ bc[1].pre.failure_count = 1
    /\ cb.state = "Open"
    /\ cb.last_failure_time # NoInstant

\* C13: a can_execute on an Open breaker returns false and changes nothing as
\* long as less than timeout has elapsed since last_failure_time; at or after
\* the timeout it returns true and leaves the breaker HalfOpen with
\* success_count 0.
C13_OpenUntilTimeout ==
    [][\A t \in Threads :
         (/\ AloneReturn(t)
          /\ bc'[t].op = "can_execute"
          /\ bc'[t].pre.state = "Open") =>
           LET pre == bc'[t].pre IN
           IF clock' - pre.last_failure_time < cfg.timeout
           THEN bc'[t].ret = "false" /\ cb' = pre
           ELSE /\ bc'[t].ret = "true"
                /\ cb' = [pre EXCEPT !.state = "HalfOpen",
                                     !.success_count = 0]]_vars

\* C13 witness: a can_execute made after the timeout has returned true and the
\* breaker it found Open is HalfOpen.
C13_Witness ==
    /\ AloneDone(1, "can_execute", "Open")
    /\ bc[1].ret = "true"
    /\ cb.state = "HalfOpen"
    /\ clock - cb.last_failure_time >= cfg.timeout

\* C14: one record_failure on a HalfOpen breaker leaves it Open with
\* last_failure_time stamped during the call and success_count 0, whatever
\* success_count was; the stamp is the instant of the write.
C14_HalfOpenFailureReopens ==
    [][\A t \in Threads :
         /\ (/\ AloneReturn(t)
             /\ bc'[t].op = "record_failure"
             /\ bc'[t].pre.state = "HalfOpen") =>
               /\ cb'.state = "Open"
               /\ cb'.success_count = 0
               /\ cb'.failure_count = bc'[t].pre.failure_count + 1
               /\ cb'.last_failure_time # NoInstant
               /\ cb'.last_failure_time >= bc'[t].pre.last_failure_time
               /\ cb'.last_failure_time <= clock'
         /\ (bc[t].pc = "rf_write_lft" /\ bc'[t].pc # "rf_write_lft") =>
               cb'.last_failure_time = clock]_vars

\* C14 witness: a HalfOpen breaker that had counted one success is Open again
\* after one record_failure, success_count back to 0.
C14_Witness ==
    /\ AloneDone(1, "record_failure", "HalfOpen")
    /\ bc[1].pre.success_count = 1
    /\ cb.state = "Open"
    /\ cb.success_count = 0

\* C15: a record_success on a HalfOpen breaker leaves it Closed with
\* success_count 0 exactly when it brings success_count to success_threshold;
\* otherwise the breaker stays HalfOpen with success_count one higher.
C15_HalfOpenClosesAtThreshold ==
    [][\A t \in Threads :
         (/\ AloneReturn(t)
          /\ bc'[t].op = "record_success"
          /\ bc'[t].pre.state = "HalfOpen") =>
           LET pre == bc'[t].pre IN
           /\ cb'.failure_count = 0
           /\ cb'.last_failure_time = pre.last_failure_time
           /\ IF pre.success_count + 1 = cfg.success_threshold
              THEN cb'.state = "Closed" /\ cb'.success_count = 0
              ELSE /\ cb'.state = "HalfOpen"
                   /\ cb'.success_count = pre.success_count + 1
                   /\ cb'.success_count < cfg.success_threshold]_vars

\* C15 witness: with success_threshold 2 the second record_success has closed
\* the HalfOpen breaker.
C15_Witness ==
    /\ cfg.success_threshold = 2
    /\ AloneDone(1, "record_success", "HalfOpen")
    /\ bc[1].pre.success_count = 1
    /\ cb.state = "Closed"
    /\ cb.success_count = 0

\* what two calls leave behind when the first runs to its end at instant t1 and
\* then the second at instant t2, from the breaker b
TwoInOrder(op1, op2, b, t1, t2) ==
    LET r1 == SeqCall(op1, b, t1)
        r2 == SeqCall(op2, r1.cb, t2)
    IN  [state |-> r2.cb.state, failure_count |-> r2.cb.failure_count,
         success_count |-> r2.cb.success_count, ret1 |-> r1.ret,
         ret2 |-> r2.ret]

\* what the calls of threads t and u, made beside one another, have left
Observed(t, u) ==
    [state |-> cb.state, failure_count |-> cb.failure_count,
     success_count |-> cb.success_count, ret1 |-> bc[t].ret,
     ret2 |-> bc[u].ret]

\* C16: when two calls that ran beside one another on a breaker found at rest
\* have both returned, the state, failure_count, success_count and the values
\* returned are those of the two calls run one after the other, in one of the
\* two orders, at some instants up to now.
C16_Linearizable ==
    \A t, u \in Threads :
       (/\ t # u
        /\ Quiescent
        /\ Tracked = {t, u}) =>
          \E t1, t2 \in 0..clock :
             \/ Observed(t, u) =
                  TwoInOrder(bc[t].op, bc[u].op, bc[t].pre, t1, t2)
             \/ Observed(u, t) =
                  TwoInOrder(bc[u].op, bc[t].op, bc[t].pre, t1, t2)

\* C26: when record_failure calls that ran beside one another on a Closed
\* breaker, and beside no other call, have all returned and they are at least
\* failure_threshold, the breaker is Open and last_failure_time is set, with
\* every failure counted: for all the calls made on a new breaker, and for two
\* calls that ran beside one another on any Closed breaker.
C26_ConcurrentFailuresOpen ==
    /\ (Quiescent /\ cb.failure_count >= cfg.failure_threshold) =>
          /\ cb.state = "Open"
          /\ cb.last_failure_time # NoInstant
    /\ \A t, u \in Threads :
          (/\ t # u
           /\ Quiescent
           /\ bc[t].pre # NoPre
           /\ bc[u].pre = bc[t].pre
           /\ bc[t].op = "record_failure"
           /\ bc[u].op = "record_failure"
           /\ bc[t].pre.state = "Closed"
           /\ Cardinality({t, u}) >= cfg.failure_threshold) =>
             /\ cb.state = "Open"
             /\ cb.last_failure_time # NoInstant
             /\ cb.failure_count = bc[t].pre.failure_count + 2

\* C26 witness: two concurrent record_failure calls on a new breaker with
\* failure_threshold 2 have returned and the breaker is Open.
C26_Witness ==
    /\ Quiescent
    /\ cfg.failure_threshold = 2
    /\ bc[1].pre = NewBreaker
    /\ bc[2].pre = NewBreaker
    /\ bc[1].op = "record_failure"
    /\ bc[2].op = "record_failure"
    /\ cb.state = "Open"
    /\ cb.failure_count = 2

\* C27: a record_success leaves failure_count 0 whatever the state; on a
\* Closed and on an Open breaker it changes nothing else: state, success_count
\* and last_failure_time are as it found them.
C27_SuccessResetsFailuresOnly ==
    [][\A t \in Threads :
         (AloneReturn(t) /\ bc'[t].op = "record_success") =>
           LET pre == bc'[t].pre IN
           /\ cb'.failure_count = 0
           /\ pre.state \in {"Closed", "Open"} =>
                 cb' = [pre EXCEPT !.failure_count = 0]]_vars

\* C27 witness: a record_success on an Open breaker with failures counted has
\* returned; the breaker is Open with failure_count 0.
C27_Witness ==
    /\ AloneDone(1, "record_success", "Open")
    /\ bc[1].pre.failure_count >= 1
    /\ cb.state = "Open"
    /\ cb.failure_count = 0
    /\ cb.last_failure_time = bc[1].pre.last_failure_time

(***************************************************************************)
(* Claims on do_with_retry.                                                *)
(***************************************************************************)
\* thread t's do_with_retry has returned with this tag
ExecDone(t, tag) == ex[t].pc = "done" /\ ex[t].res.tag = tag

\* C17: when the can_execute made at the start of do_with_retry has returned
\* false, the next step of the call returns CircuitBreakerOpen; the operation
\* has not been invoked, record_success and record_failure have not been
\* called, and the breaker is as can_execute left it.
C17_RejectedAtStart ==
    [][\A t \in Threads :
         (/\ ex[t].pc = "gate"
          /\ bc[t].pc = "done"
          /\ bc[t].ret = "false"
          /\ ex'[t] # ex[t]) =>
            /\ ex'[t].pc = "done"
            /\ ex'[t].res.tag = "CircuitBreakerOpen"
            /\ ex'[t].invocations = 0
            /\ ex'[t].recordings = 0
            /\ bc'[t] = bc[t]
            /\ cb' = cb]_vars

\* C17 witness: a call made with the breaker Open has returned
\* CircuitBreakerOpen without an invocation.
C17_Witness ==
    /\ ExecDone(1, "CircuitBreakerOpen")
    /\ ex[1].breaker
    /\ ex[1].invocations = 0
    /\ bc[1].op = "can_execute"
    /\ bc[1].ret = "false"
    /\ cb.state = "Open"

\* C18: a call that has returned after invocations that all failed, and was
\* not rejected by the breaker, made max_retries + 1 invocations and returned
\* AttemptsExhausted with the error of the last one.
C18_ExhaustedAfterAllAttempts ==
    \A t \in Threads :
       (/\ ex[t].pc = "done"
        /\ ex[t].failures = ex[t].invocations
        /\ ex[t].res.tag # "CircuitBreakerOpen") =>
          /\ ex[t].res.tag = "AttemptsExhausted"
          /\ ex[t].invocations = ex[t].policy.max_retries + 1
          /\ ex[t].res.val = ex[t].invocations

\* C19: a call not rejected by the breaker returns Ok after k failed
\* invocations and one successful one, with the value of that one, and does
\* not invoke the operation once an invocation has succeeded; it does not
\* return otherwise before max_retries + 1 invocations have failed.
C19_StopsAtFirstSuccess ==
    [][\A t \in Threads :
         /\ (ex'[t].pc = "done" /\ ex'[t].res.tag = "Ok") =>
               /\ ex'[t].invocations = ex'[t].failures + 1
               /\ ex'[t].failures <= ex'[t].policy.max_retries
               /\ ex'[t].res.val = ex'[t].invocations
         /\ (ex'[t].pc = "done"
               /\ ex'[t].res.tag \notin {"Ok", "CircuitBreakerOpen"}) =>
               ex'[t].failures = ex'[t].policy.max_retries + 1
         /\ ex[t].pc = "rec_ok" =>
               /\ ex'[t].pc \in {"rec_ok", "done"}
               /\ ex'[t].invocations = ex[t].invocations]_vars

\* C20: when the can_execute made after a recorded failure has returned false,
\* the next step of the call returns CircuitBreakerOpen: no sleep is started,
\* the operation is not invoked again and the attempt is not counted, also
\* when retries remain.
C20_RejectedAfterFailure ==
    [][\A t \in Threads :
         (/\ ex[t].pc = "recheck"
          /\ bc[t].pc = "done"
          /\ bc[t].ret = "false"
          /\ ex'[t] # ex[t]) =>
            /\ ex'[t].pc = "done"
            /\ ex'[t].res.tag = "CircuitBreakerOpen"
            /\ ex'[t].invocations = ex[t].invocations
            /\ ex'[t].sleeps = ex[t].sleeps
            /\ ex'[t].attempt = ex[t].attempt
            /\ ex'[t].recordings = ex[t].invocations]_vars

\* C20 witness: a call with retries left has returned CircuitBreakerOpen after
\* one failed invocation, without a sleep.
C20_Witness ==
    /\ ExecDone(1, "CircuitBreakerOpen")
    /\ ex[1].invocations = 1
    /\ ex[1].failures = 1
    /\ ex[1].attempt < ex[1].policy.max_retries
    /\ ex[1].sleeps = 0
    /\ cb.state = "Open"

\* C21: a call cancelled during its backoff sleep takes no further step: the
\* cancellation leaves the breaker, the frame of the last breaker call and
\* the counts of invocations and recordings as they were, the cancelled call
\* never moves again, and whatever changes the breaker afterwards is a step
\* of a breaker method of another thread.
C21_CancelledSleepRecordsNothing ==
    [][\A t \in Threads :
         /\ (ex[t].pc = "sleep" /\ ex'[t].pc = "cancelled") =>
               /\ cb' = cb
               /\ bc'[t] = bc[t]
               /\ ex'[t].invocations = ex[t].invocations
               /\ ex'[t].recordings = ex[t].recordings
         /\ ex[t].pc = "cancelled" =>
               /\ ex'[t] = ex[t]
               /\ bc'[t] = bc[t]
               /\ cb' # cb => \E u \in Threads \ {t} : bc'[u] # bc[u]]_vars

\* C21 witness: a call with a breaker was cancelled asleep after one failed
\* invocation, and the breaker has been changed by another caller since.
C21_Witness ==
    /\ ex[1].pc = "cancelled"
    /\ ex[1].breaker
    /\ ex[1].invocations = 1
    /\ ex[1].recordings = 1
    /\ ex[1].sleeps = 1
    /\ ex[2].pc = "done"
    /\ ex[2].invocations = 1
    /\ cb.failure_count = 2

\* the call of thread t is suspended in op().await or in sleep(backoff).await
Suspended(t) ==
    \/ ex[t].pc \in {"invoke", "sleep"}
    \/ ex[t].pc = "gate" /\ bc[t].pc = "done" /\ bc[t].ret = "true"

\* C28: a call suspended in the operation or in the backoff sleep is inside no
\* breaker method, and a thread inside no breaker method neither holds nor
\* awaits the lock of last_failure_time: whoever holds or awaits it is running
\* a breaker method.
C28_NoLockAcrossAwait ==
    \A t \in Threads :
       /\ Suspended(t) => AtRest(t)
       /\ AtRest(t) => (t \notin lftReaders /\ ~Queued(t))

\* C28 witness: while the call of thread 1 sleeps, the can_execute of thread 2
\* holds the read lock of last_failure_time.
C28_Witness ==
    /\ ex[1].pc = "sleep"
    /\ ex[1].breaker
    /\ 2 \in lftReaders
    /\ bc[2].op = "can_execute"

(***************************************************************************)
(* Claims on calculate_backoff.                                            *)
(***************************************************************************)
\* min(initial_backoff * 2^attempt, max_backoff), in the integers
Capped(policy, attempt) ==
    LET e == policy.initial_backoff * Pow2(attempt)
    IN  IF e < policy.max_backoff THEN e ELSE policy.max_backoff

\* C22: with jitter disabled calculate_backoff(attempt) returns
\* min(initial_backoff * 2^attempt, max_backoff) for every attempt >= 1, never
\* more than max_backoff.
C22_BackoffIsCappedExponential ==
    (bo.pc = "done" /\ ~bo.policy.jitter /\ bo.attempt >= 1) =>
        /\ ~bo.out.panic
        /\ bo.out.backoff = Capped(bo.policy, bo.attempt)
        /\ bo.out.backoff <= bo.policy.max_backoff

\* C23: with jitter enabled calculate_backoff(n) returns a duration in
\* [capped, capped * 1.25], capped = min(initial_backoff * 2^n, max_backoff).
C23_JitterWithinQuarter ==
    (bo.pc = "done" /\ bo.policy.jitter) =>
        /\ ~bo.out.panic
        /\ bo.out.backoff >= Capped(bo.policy, bo.attempt)
        /\ 4 * bo.out.backoff <= 5 * Capped(bo.policy, bo.attempt)

(***************************************************************************)
(* Claims on the ledger service.                                           *)
(***************************************************************************)
\* the entries of the request that fail the validation of post_journal
InvalidEntries ==
    {i \in 1..Len(svc.entries) :
        \/ ~ParsesAsUuid(svc.entries[i].account)
        \/ svc.entries[i].type \notin {"DEBIT", "CREDIT"}
        \/ ~svc.entries[i].amount.some}

\* the request names an account that does not exist
NamesNoAccount ==
    \E i \in 1..Len(svc.entries) : svc.entries[i].account \notin AccountIds

\* the debit and credit sums of the request differ, in the integers
Unbalanced ==
    LET es == EntriesToCreate(svc.entries)
    IN  TrueSum(es, 1, "DEBIT") # TrueSum(es, 1, "CREDIT")

\* C24: a post_journal that has returned answers malformed input and a
\* balance violation with invalid-argument, and a storage fault with an
\* internal error whose message carries no text of the storage layer.
C24_ErrorMapping ==
    svc.pc = "done" =>
        /\ InvalidEntries # {} => svc.res.code = "InvalidArgument"
        /\ (svc.res.code # "Panic" /\ writer[1].res = "BadRequest") =>
              svc.res.code = "InvalidArgument"
        /\ writer[1].res = "Database" =>
              /\ svc.res.code = "Internal"
              /\ svc.res.detail = "none"
              /\ svc.res.text # "sqlx::Error"

\* the repository call failed on a storage fault that is not the rejection of
\* an unknown account
OtherStorageFault ==
    writer[1].res = "Database" /\ writer[1].failedAt # "foreign_key"

\* C25: a post_journal that has returned on a request with an invalid account
\* id (no UUID, or a UUID naming no account) or an unbalanced entry set has
\* returned invalid-argument: not Ok, not an internal error (an unrelated
\* storage fault aside).
C25_InvalidAccountOrUnbalancedIsClientError ==
    (svc.pc = "done" /\ svc.res.code # "Panic"
       /\ (NamesNoAccount \/ Unbalanced)
       /\ ~OtherStorageFault) =>
        svc.res.code = "InvalidArgument"

\* C29: a request with an entry that has a non-UUID account, an unspecified or
\* unknown type or no amount is answered with invalid-argument naming the
\* first such entry, and the repository is never entered: no transaction, no
\* row pending or committed.
C29_MalformedRejectedBeforePersistence ==
    (svc.pc # "idle" /\ InvalidEntries # {}) =>
        /\ svc.pc = "done"
        /\ svc.res.code = "InvalidArgument"
        /\ \A i \in InvalidEntries : svc.res.idx + 1 <= i
        /\ svc.res.idx + 1 \in InvalidEntries
        /\ svc.res = EntryError(svc.entries[svc.res.idx + 1], svc.res.idx)
        /\ writer[1] = IdleWriter
        /\ tx[1] = {}
        /\ db = {}

\* C29 witness: a request whose first entry is well-formed and whose second
\* has no amount was rejected naming entries[1].
C29_Witness ==
    /\ svc.pc = "done"
    /\ Len(svc.entries) = 2
    /\ InvalidEntries = {2}
    /\ svc.res.idx = 1
    /\ svc.res.text = "amount is required"
    /\ db = {}

(***************************************************************************)
(* Claims on the open period of the breaker.                               *)
(***************************************************************************)
\* the breaker went from Closed to Open less than timeout ago
JustOpened ==
    /\ opened.from = "Closed"
    /\ clock - opened.at < cfg.timeout

\* a can_execute of thread t returns true in this step: at once, having read
\* Closed or HalfOpen, or at the end of its Open branch
ReturnsTrue(t) ==
    \/ /\ AtRest(t)
       /\ cb.state # "Open"
       /\ bc' # bc
       /\ \E pre \in {Snapshot, NoPre} :
             bc' = Enter(t, "can_execute", "done", "none", 0, "true", pre)
    \/ /\ bc[t].pc = "ce_store_sc"
       /\ bc'[t].pc = "done"
       /\ bc'[t].ret = "true"

\* C31: from the instant the breaker goes from Closed to Open until timeout
\* has elapsed, no can_execute returns true and the state does not become
\* HalfOpen, whatever runs beside the record_failure that opened it.
C31_OpenForTimeout ==
    [][JustOpened' =>
          /\ \A t \in Threads : ~ReturnsTrue(t)
          /\ cb'.state # "HalfOpen"]_vars

\* the breaker is Open and timeout has elapsed neither since it opened nor
\* since its last_failure_time
OpenAndWaiting ==
    /\ cb.state = "Open"
    /\ clock - opened.at < cfg.timeout
    /\ ~TimeoutElapsed(cb, clock)

\* do_with_retry of thread t invokes the operation in this step
Invokes(t) == ex'[t].invocations = ex[t].invocations + 1

\* C32: a do_with_retry that was given the breaker never invokes the
\* operation while the breaker is Open and its timeout has not elapsed, the
\* invocation that follows a backoff sleep included.
C32_NoInvocationWhileOpen ==
    [][\A t \in Executors :
          (ex[t].breaker /\ Invokes(t)) => ~OpenAndWaiting]_vars

(***************************************************************************)
(* Claims on the recovery of the breaker.                                  *)
(***************************************************************************)
\* C33: an Open breaker on which callers keep calling do_with_retry with
\* operations that succeed, while time advances, goes to HalfOpen and from
\* HalfOpen to Closed.
C33_OpenEventuallyCloses ==
    /\ (cb.state = "Open") ~> (cb.state = "HalfOpen")
    /\ (cb.state = "HalfOpen") ~> (cb.state = "Closed")

\* C33 witness: a breaker with success_threshold 2 that was Open is Closed
\* again and a call that was let through after the timeout has returned Ok.
C33_Witness ==
    /\ cb.state = "Closed"
    /\ cfg.success_threshold = 2
    /\ clock - opened.at >= cfg.timeout
    /\ \E t \in Executors : ex[t].pc = "done" /\ ex[t].res.tag = "Ok"

(***************************************************************************)
(* Claims on the locks of the breaker.                                     *)
(***************************************************************************)
\* thread t is inside a breaker method and can take a step of it
CanStep(t) ==
    \/ bc[t].pc \in {"ce_write_state", "ce_store_sc", "rs_read_state",
                     "rs_fetch_add", "rs_write_state", "rs_store_sc",
                     "rf_read_state", "rf_write_state", "rf_store_sc"}
    \/ bc[t].pc = "ce_read_lft" /\ LftFree(t)
    \/ bc[t].pc = "rf_write_lft" /\ LftFree(t) /\ lftReaders = {}

\* C34: concurrent can_execute, record_success and record_failure calls on one
\* breaker never deadlock on the state and last_failure_time locks: while a
\* call is in progress some call can step, and every call returns.
C34_NoDeadlock ==
    /\ [](~Quiescent => \E t \in Threads : CanStep(t))
    /\ \A t \in Threads : (~AtRest(t)) ~> AtRest(t)

\* C34 witness: a can_execute holds the read lock of last_failure_time and is
\* about to write the state, while a record_failure waits in the queue for the
\* write lock of last_failure_time.
C34_Witness ==
    \E t, u \in Threads :
       /\ bc[t].pc = "ce_write_state"
       /\ t \in lftReaders
       /\ bc[u].pc = "rf_write_lft"
       /\ Queued(u)

(***************************************************************************)
(* Claims on the bounds and the recordings of do_with_retry.               *)
(***************************************************************************)
\* C35: a call of do_with_retry invokes the operation at most max_retries + 1
\* times, sleeps at most max_retries times, and when it is over it has
\* returned Ok, CircuitBreakerOpen or AttemptsExhausted, with or without a
\* breaker and whatever the other caller does to the breaker.
C35_ExecuteIsBounded ==
    \A t \in Executors :
       /\ ex[t].invocations <= ex[t].policy.max_retries + 1
       /\ ex[t].sleeps <= ex[t].policy.max_retries
       /\ ex[t].pc = "done" =>
             ex[t].res.tag \in {"Ok", "CircuitBreakerOpen", "AttemptsExhausted"}

\* C36: with a breaker, every invocation is made when no breaker method of the
\* call is in progress and starts exactly one recording, record_success after
\* a success and record_failure after a failure; nothing else records; the
\* call returns when that recording has returned, with as many recordings as
\* invocations. Without a breaker nothing is recorded and the call never
\* returns CircuitBreakerOpen.
C36_OneRecordingPerInvocation ==
    [][\A t \in Executors :
          /\ (ex[t].breaker /\ Invokes(t)) =>
                /\ AtRest(t)
                /\ ex'[t].recordings = ex[t].recordings + 1
                /\ bc'[t].pc # "idle"
                /\ bc'[t].op = IF ex'[t].failures = ex[t].failures
                               THEN "record_success" ELSE "record_failure"
          /\ ~Invokes(t) => ex'[t].recordings = ex[t].recordings
          /\ (ex[t].pc # "done" /\ ex'[t].pc = "done") =>
                /\ AtRest(t)
                /\ ex'[t].breaker => ex'[t].recordings = ex'[t].invocations
          /\ ~ex'[t].breaker =>
                /\ ex'[t].recordings = 0
                /\ bc'[t] = IdleFrame
                /\ ex'[t].res.tag # "CircuitBreakerOpen"]_vars

\* C36 witness: a call with the breaker has returned Ok after one failed and
\* one successful invocation, with two recordings, the last a record_success.
C36_Witness ==
    \E t \in Executors :
       /\ ExecDone(t, "Ok")
       /\ ex[t].breaker
       /\ ex[t].invocations = 2
       /\ ex[t].failures = 1
       /\ ex[t].recordings = 2
       /\ bc[t].op = "record_success"

(***************************************************************************)
(* Claims on the counters of the breaker.                                  *)
(***************************************************************************)
\* C37: between the calls of a single caller, a breaker whose thresholds are
\* at least 1 has success_count 0 when it is Closed or Open, success_count
\* below success_threshold when it is HalfOpen, and failure_count below
\* failure_threshold when it is Closed.
C37_CountersWithinThresholds ==
    (Quiescent /\ cfg.success_threshold >= 1 /\ cfg.failure_threshold >= 1) =>
        /\ cb.state \in {"Closed", "Open"} => cb.success_count = 0
        /\ cb.state = "HalfOpen" => cb.success_count < cfg.success_threshold
        /\ cb.state = "Closed" => cb.failure_count < cfg.failure_threshold

\* C37 witness: a HalfOpen breaker with success_threshold 2 on which one
\* success has been recorded, no call in progress.
C37_Witness ==
    /\ Quiescent
    /\ cb.state = "HalfOpen"
    /\ cb.success_count = 1
    /\ cfg.success_threshold = 2
    /\ bc[1].op = "record_success"

(***************************************************************************)
(* Claims on the balance check of the ledger.                              *)
(***************************************************************************)
\* the call of writer w has passed the balance check
Accepted(w) ==
    \/ writer[w].pc \in {"begin", "insert_journal", "insert_entries", "commit"}
    \/ WriterDone(w) /\ writer[w].res \in {"Ok", "Database"}

\* C38: create_journal_with_entries lets a set of entries past its balance
\* check only if the sum of the Debit amounts equals the sum of the Credit
\* amounts over the integers, whatever machine values the amounts are.
C38_BalanceOnExactSums ==
    \A w \in Writers :
        Accepted(w) =>
            TrueSum(writer[w].entries, 1, "DEBIT")
                = TrueSum(writer[w].entries, 1, "CREDIT")

\* the machine sums of the call of writer w
MachineTotals(w) == Totals(writer[w].entries, 1, ZeroTotals)

\* C39: a call with no entries passes the balance check and, unless storage
\* fails, commits a journal row and no entry row; the check rejects a call
\* only when its two sums differ, so neither an empty list nor amounts below
\* zero are refused.
C39_EmptyAndNegativeAccepted ==
    \A w \in Writers :
        WriterDone(w) =>
            /\ writer[w].entries = <<>> =>
                  /\ writer[w].res \in {"Ok", "Database"}
                  /\ writer[w].res = "Ok" => RowsOf(w) = {JournalRow(w)}
            /\ writer[w].res = "BadRequest" =>
                  MachineTotals(w).debits # MachineTotals(w).credits
            /\ (/\ \A i \in 1..Len(writer[w].entries) :
                      writer[w].entries[i].amount < 0
                /\ ~MachineTotals(w).overflowed
                /\ MachineTotals(w).debits = MachineTotals(w).credits) =>
                  writer[w].res \in {"Ok", "Database"}

\* C39 witness: a call with an empty entry list has committed its journal,
\* which has no entries.
C39_Witness ==
    \E w \in Writers :
        /\ WriterDone(w)
        /\ writer[w].entries = <<>>
        /\ writer[w].res = "Ok"
        /\ RowsOf(w) = {JournalRow(w)}

====
